---- MODULE Spec2Model ----
(***************************************************************************)
(* A model of the cr crate: the DES, AES-128 and Twofish block ciphers and *)
(* the MD5 and SHA-1 streaming hashes.  Every cipher and hash is computed  *)
(* bit for bit as the Rust source computes it.                             *)
(*                                                                         *)
(* Machine integers.  TLC's integers are 32-bit signed, so                 *)
(*   - a u8 is an integer 0..255, a u16 an integer 0..65535;               *)
(*   - a u32 is the pair <<hi, lo>> of its 16-bit halves;                  *)
(*   - a DES u64/u32 is the sequence of its bits, bit i (from the least    *)
(*     significant, i = 0) at index i + 1, which is the 1-indexed bit      *)
(*     position of the DES permutation tables.                             *)
(* Arrays are sequences: Rust index i is TLA+ index i + 1.                 *)
(***************************************************************************)
EXTENDS Integers, Sequences, FiniteSets, TLC

VARIABLES
    des_st,   \* one DES call sequence: inputs, position, results
    md5_st,   \* one Md5 value and the caller feeding it
    sha1_st,  \* one Sha1 value and the caller feeding it
    aes_st,   \* one aes::encrypt_128 call, step by step
    tf_st,    \* one twofish::encrypt call, step by step
    calls     \* block encryptions running side by side, each with its own locals

vars == <<des_st, md5_st, sha1_st, aes_st, tf_st, calls>>

(***************************************************************************)
(* u8 / u16 / u32 arithmetic                                               *)
(***************************************************************************)

RECURSIVE AndBits(_, _, _)
\* a & b on the low k bits, bit by bit
AndBits(a, b, k) ==
    IF k = 0 THEN 0
    ELSE ((a % 2) * (b % 2)) + 2 * AndBits(a \div 2, b \div 2, k - 1)

\* a & b for two u8, tabulated once
And8 == [a \in 0..255 |-> [b \in 0..255 |-> AndBits(a, b, 8)]]

and8(a, b) == And8[a][b]
or8(a, b) == a + b - And8[a][b]
xor8(a, b) == a + b - 2 * And8[a][b]

\* u32 as <<hi, lo>>, two u16 halves.  The bitwise operations go byte by byte
\* through And8, with a | b = a + b - (a & b) and a ^ b = a + b - 2 * (a & b).
U32(hi, lo) == <<hi, lo>>
U32Zero == <<0, 0>>

u32_and(x, y) ==
    <<(And8[x[1] \div 256][y[1] \div 256] * 256) + And8[x[1] % 256][y[1] % 256],
      (And8[x[2] \div 256][y[2] \div 256] * 256) + And8[x[2] % 256][y[2] % 256]>>

u32_or(x, y) ==
    <<(x[1] + y[1])
         - ((And8[x[1] \div 256][y[1] \div 256] * 256) + And8[x[1] % 256][y[1] % 256]),
      (x[2] + y[2])
         - ((And8[x[2] \div 256][y[2] \div 256] * 256) + And8[x[2] % 256][y[2] % 256])>>

u32_xor(x, y) ==
    <<(x[1] + y[1])
         - (2 * ((And8[x[1] \div 256][y[1] \div 256] * 256) + And8[x[1] % 256][y[1] % 256])),
      (x[2] + y[2])
         - (2 * ((And8[x[2] \div 256][y[2] \div 256] * 256) + And8[x[2] % 256][y[2] % 256]))>>

u32_not(x) == <<65535 - x[1], 65535 - x[2]>>

wrapping_add(x, y) ==
    LET lo == x[2] + y[2]
    IN  <<(x[1] + y[1] + (lo \div 65536)) % 65536, lo % 65536>>

\* x.rotate_left(s): by 16 when s % 32 >= 16 (the halves change places), then
\* by s % 16
rotate_left(x, s) ==
    LET hi == IF s % 32 >= 16 THEN x[2] ELSE x[1]
        lo == IF s % 32 >= 16 THEN x[1] ELSE x[2]
        k == s % 16
    IN  <<((hi * (2 ^ k)) % 65536) + (lo \div (2 ^ (16 - k))),
          ((lo * (2 ^ k)) % 65536) + (hi \div (2 ^ (16 - k)))>>

\* x.rotate_right(s) for s in 1..31
rotate_right(x, s) ==
    LET hi == IF 32 - s >= 16 THEN x[2] ELSE x[1]
        lo == IF 32 - s >= 16 THEN x[1] ELSE x[2]
        k == (32 - s) % 16
    IN  <<((hi * (2 ^ k)) % 65536) + (lo \div (2 ^ (16 - k))),
          ((lo * (2 ^ k)) % 65536) + (hi \div (2 ^ (16 - k)))>>

\* x << s on a u32 (bits shifted out are lost), s in 0..15
shl_lt16(x, s) ==
    <<((x[1] * (2 ^ s)) % 65536) + (x[2] \div (2 ^ (16 - s))),
      (x[2] * (2 ^ s)) % 65536>>

to_le_bytes(x) == <<x[2] % 256, x[2] \div 256, x[1] % 256, x[1] \div 256>>
from_le_bytes(b) == <<(b[4] * 256) + b[3], (b[2] * 256) + b[1]>>
to_be_bytes(x) == <<x[1] \div 256, x[1] % 256, x[2] \div 256, x[2] % 256>>
from_be_bytes(b) == <<(b[1] * 256) + b[2], (b[3] * 256) + b[4]>>

\* the sequence f, built once: TLC keeps a function expression unevaluated and
\* recomputes an element every time it is read
Built(f) == f \o <<>>

(***************************************************************************)
(* DES (des.rs).  A u64 is a sequence of 64 bits, a u32 one of 32 bits.    *)
(***************************************************************************)

\* the u64 / u32 whose value is the integer v < 2^30
BitsOf(v, width) ==
    Built([k \in 1..width |-> IF k <= 30 THEN (v \div (2 ^ (k - 1))) % 2 ELSE 0])
\* the integer held by bits lo..hi (0-based) of bv, hi - lo < 30
RECURSIVE IntOf(_, _, _)
IntOf(bv, lo, hi) ==
    IF hi < lo THEN 0 ELSE bv[lo + 1] + 2 * IntOf(bv, lo + 1, hi)

bv_xor(a, b) == Built([k \in 1..Len(a) |-> (a[k] + b[k]) % 2])
bv_or(a, b) == Built([k \in 1..Len(a) |-> IF a[k] + b[k] > 0 THEN 1 ELSE 0])
\* x << n and x >> n, width kept
bv_shl(a, n) == Built([k \in 1..Len(a) |-> IF k > n THEN a[k - n] ELSE 0])
bv_shr(a, n) == Built([k \in 1..Len(a) |-> IF k + n <= Len(a) THEN a[k + n] ELSE 0])
\* x as u32, x as u64
as_u32(a) == Built([k \in 1..32 |-> a[k]])
as_u64(a) == Built([k \in 1..64 |-> IF k <= Len(a) THEN a[k] ELSE 0])
\* x & mask for the mask with the low n bits set
bv_low(a, n) == Built([k \in 1..Len(a) |-> IF k <= n THEN a[k] ELSE 0])
\* u64::from_le_bytes
u64_from_le_bytes(bytes) ==
    Built([k \in 1..64 |-> (bytes[((k - 1) \div 8) + 1] \div (2 ^ ((k - 1) % 8))) % 2])

IP_BITS == <<
    58, 50, 42, 34, 26, 18, 10, 2, 60, 52, 44, 36, 28, 20, 12, 4,
    62, 54, 46, 38, 30, 22, 14, 6, 64, 56, 48, 40, 32, 24, 16, 8,
    57, 49, 41, 33, 25, 17, 9, 1, 59, 51, 43, 35, 27, 19, 11, 3,
    61, 53, 45, 37, 29, 21, 13, 5, 63, 55, 47, 39, 31, 23, 15, 7
>>

IP_INV_BITS == <<
    40, 8, 48, 16, 56, 24, 64, 32, 39, 7, 47, 15, 55, 23, 63, 31,
    38, 6, 46, 14, 54, 22, 62, 30, 37, 5, 45, 13, 53, 21, 61, 29,
    36, 4, 44, 12, 52, 20, 60, 28, 35, 3, 43, 11, 51, 19, 59, 27,
    34, 2, 42, 10, 50, 18, 58, 26, 33, 1, 41, 9, 49, 17, 57, 25
>>

E_BITS == <<
    32, 1, 2, 3, 4, 5, 4, 5, 6, 7, 8, 9, 8, 9, 10, 11,
    12, 13, 12, 13, 14, 15, 16, 17, 16, 17, 18, 19, 20, 21, 20, 21,
    22, 23, 24, 25, 24, 25, 26, 27, 28, 29, 28, 29, 30, 31, 32, 1
>>

\* PC1_BITS with position 8 in the place of position 57
PC1_BITS_reading_8 == <<
    8, 49, 41, 33, 25, 17, 9, 1, 58, 50, 42, 34, 26, 18, 10, 2,
    59, 51, 43, 35, 27, 19, 11, 3, 60, 52, 44, 36, 63, 55, 47, 39,
    31, 23, 15, 7, 62, 54, 46, 38, 30, 22, 14, 6, 61, 53, 45, 37,
    29, 21, 13, 5, 28, 20, 12, 4
>>

PC1_BITS == <<
    57, 49, 41, 33, 25, 17, 9, 1, 58, 50, 42, 34, 26, 18, 10, 2,
    59, 51, 43, 35, 27, 19, 11, 3, 60, 52, 44, 36, 63, 55, 47, 39,
    31, 23, 15, 7, 62, 54, 46, 38, 30, 22, 14, 6, 61, 53, 45, 37,
    29, 21, 13, 5, 28, 20, 12, 4
>>

LEFT_SHIFTS == <<
    1, 1, 2, 2, 2, 2, 2, 2, 1, 2, 2, 2, 2, 2, 2, 1
>>

PC2_BITS == <<
    14, 17, 11, 24, 1, 5, 3, 28, 15, 6, 21, 10, 23, 19, 12, 4,
    26, 8, 16, 7, 27, 20, 13, 2, 41, 52, 31, 37, 47, 55, 30, 40,
    51, 45, 33, 48, 44, 49, 39, 56, 34, 53, 46, 42, 50, 36, 29, 32
>>

S_BOXES == <<
  <<
    14, 4, 13, 1, 2, 15, 11, 8, 3, 10, 6, 12, 5, 9, 0, 7,
    0, 15, 7, 4, 14, 2, 13, 1, 10, 6, 12, 11, 9, 5, 3, 8,
    4, 1, 14, 8, 13, 6, 2, 11, 15, 12, 9, 7, 3, 10, 5, 0,
    15, 12, 8, 2, 4, 9, 1, 7, 5, 11, 3, 14, 10, 0, 6, 13
  >>,
  <<
    15, 1, 8, 14, 6, 11, 3, 4, 9, 7, 2, 13, 12, 0, 5, 10,
    3, 13, 4, 7, 15, 2, 8, 14, 12, 0, 1, 10, 6, 9, 11, 5,
    0, 14, 7, 11, 10, 4, 13, 1, 5, 8, 12, 6, 9, 3, 2, 15,
    13, 8, 10, 1, 3, 15, 4, 2, 11, 6, 7, 12, 0, 5, 14, 9
  >>,
  <<
    10, 0, 9, 14, 6, 3, 15, 5, 1, 13, 12, 7, 11, 4, 2, 8,
    13, 7, 0, 9, 3, 4, 6, 10, 2, 8, 5, 14, 12, 11, 15, 1,
    13, 6, 4, 9, 8, 15, 3, 0, 11, 1, 2, 12, 5, 10, 14, 7,
    1, 10, 13, 0, 6, 9, 8, 7, 4, 15, 14, 3, 11, 5, 2, 12
  >>,
  <<
    7, 13, 14, 3, 0, 6, 9, 10, 1, 2, 8, 5, 11, 12, 4, 15,
    13, 8, 11, 5, 6, 15, 0, 3, 4, 7, 2, 12, 1, 10, 14, 9,
    10, 6, 9, 0, 12, 11, 7, 13, 15, 1, 3, 14, 5, 2, 8, 4,
    3, 15, 0, 6, 10, 1, 13, 8, 9, 4, 5, 11, 12, 7, 2, 14
  >>,
  <<
    2, 12, 4, 1, 7, 10, 11, 6, 8, 5, 3, 15, 13, 0, 14, 9,
    14, 11, 2, 12, 4, 7, 13, 1, 5, 0, 15, 10, 3, 9, 8, 6,
    4, 2, 1, 11, 10, 13, 7, 8, 15, 9, 12, 5, 6, 3, 0, 14,
    11, 8, 12, 7, 1, 14, 2, 13, 6, 15, 0, 9, 10, 4, 5, 3
  >>,
  <<
    12, 1, 10, 15, 9, 2, 6, 8, 0, 13, 3, 4, 14, 7, 5, 11,
    10, 15, 4, 2, 7, 12, 9, 5, 6, 1, 13, 14, 0, 11, 3, 8,
    9, 14, 15, 5, 2, 8, 12, 3, 7, 0, 4, 10, 1, 13, 11, 6,
    4, 3, 2, 12, 9, 5, 15, 10, 11, 14, 1, 7, 6, 0, 8, 13
  >>,
  <<
    4, 11, 2, 14, 15, 0, 8, 13, 3, 12, 9, 7, 5, 10, 6, 1,
    13, 0, 11, 7, 4, 9, 1, 10, 14, 3, 5, 12, 2, 15, 8, 6,
    1, 4, 11, 13, 12, 3, 7, 14, 10, 15, 6, 8, 0, 5, 9, 2,
    6, 11, 13, 8, 1, 4, 10, 7, 9, 5, 0, 15, 14, 2, 3, 12
  >>,
  <<
    13, 2, 8, 4, 6, 15, 11, 1, 10, 9, 3, 14, 5, 0, 12, 7,
    1, 15, 13, 8, 10, 3, 7, 4, 12, 5, 6, 11, 0, 14, 9, 2,
    7, 11, 4, 1, 9, 12, 14, 2, 0, 6, 10, 13, 15, 3, 5, 8,
    2, 1, 14, 7, 4, 10, 8, 13, 15, 12, 9, 0, 3, 5, 6, 11
  >>
>>

P_BITS == <<
    16, 7, 20, 21, 29, 12, 28, 17, 1, 15, 23, 26, 5, 18, 31, 10,
    2, 8, 24, 14, 32, 27, 3, 9, 19, 13, 30, 6, 22, 11, 4, 25
>>

\* permute: the perm list is walked from its last entry; res <<= 1 followed
\* by res |= 1 pushes the tested bit in at bit 0, here at the head of the bits
\* gathered so far (at most 64, so none is shifted out of the u64)
RECURSIVE des_permute_loop(_, _, _)
des_permute_loop(perm, block, st) ==
    IF st.k = 0 THEN st.res
    ELSE des_permute_loop(perm, block,
            [k |-> st.k - 1,
             res |-> <<IF block[(perm[st.k] - 1) + 1] = 1 THEN 1 ELSE 0>> \o st.res])

des_permute(perm, block) ==
    as_u64(des_permute_loop(perm, block, [k |-> Len(perm), res |-> <<>>]))

\* let i of s: block >> 4 | (block & 1)
des_s_i(block) == or8(block \div 16, and8(block, 1))

\* des_s with the row taken from bits 5 and 0 alone
des_s_row_bits_5_0(block, n) ==
    LET i == or8(and8(block \div 16, 2), and8(block, 1))
        j == and8(block \div 2, 15)
        idx == (i * 16) + j
    IN  S_BOXES[n + 1][idx + 1]

des_s(block, n) ==
    LET i == or8(block \div 16, and8(block, 1))
        j == and8(block \div 2, 15)
        idx == (i * 16) + j
    IN  S_BOXES[n + 1][idx + 1]

des_expand(block) == des_permute(E_BITS, as_u64(block))

RECURSIVE des_feistel_loop(_)
des_feistel_loop(st) ==
    IF st.i = 8 THEN st.res
    ELSE des_feistel_loop(
            [i |-> st.i + 1,
             res |-> bv_or(bv_shl(st.res, 4),
                           BitsOf(des_s(and8(IntOf(st.mixed, 0, 7), 63), st.i), 32)),
             mixed |-> bv_shr(st.mixed, 6)])

des_feistel(block, round_key) ==
    LET res == des_feistel_loop(
                 [i |-> 0, res |-> BitsOf(0, 32),
                  mixed |-> bv_xor(des_expand(block), round_key)])
    IN  as_u32(des_permute(P_BITS, as_u64(res)))

\* rotate_key_left without b: bit 27 is shifted out and lost
des_rotate_key_left_no_wrap(bits, n) == bv_low(bv_shl(bits, n), 28)

RECURSIVE des_rotate_key_left_loop(_, _)
des_rotate_key_left_loop(bits, n) ==
    IF n = 0 THEN bits
    ELSE des_rotate_key_left_loop(
            bv_or(bv_shl(bits, 1), bv_low(bv_shr(bits, 27), 1)), n - 1)

des_rotate_key_left(bits, n) == bv_low(des_rotate_key_left_loop(bits, n), 28)

\* round_keys: the 16 items of the iterator, in the order it yields them
RECURSIVE des_round_keys_loop(_)
des_round_keys_loop(st) ==
    IF st.round = 16 THEN st.keys
    ELSE LET left_key == des_rotate_key_left(st.left_key, LEFT_SHIFTS[st.round + 1])
             right_key == des_rotate_key_left(st.right_key, LEFT_SHIFTS[st.round + 1])
         IN  des_round_keys_loop(
                [round |-> st.round + 1,
                 left_key |-> left_key,
                 right_key |-> right_key,
                 keys |-> Append(st.keys,
                            des_permute(PC2_BITS, bv_or(bv_shl(right_key, 28), left_key)))])

des_round_keys(key) ==
    LET k == des_permute(PC1_BITS, key)
    IN  des_round_keys_loop(
            [round |-> 0, left_key |-> bv_low(k, 28), right_key |-> bv_shr(k, 28),
             keys |-> <<>>])

\* the fold of des: (left, right) -> (right, left ^ feistel(right, round_key))
RECURSIVE des_fold(_, _)
des_fold(round_keys, st) ==
    IF st.i > Len(round_keys) THEN <<st.left, st.right>>
    ELSE des_fold(round_keys,
            [i |-> st.i + 1,
             left |-> st.right,
             right |-> bv_xor(st.left, des_feistel(st.right, round_keys[st.i]))])

\* des without the swap of the two halves after the last round
des_unswapped(plaintext, round_keys) ==
    LET preoutput == des_permute(IP_BITS, plaintext)
        folded == des_fold(round_keys,
                    [i |-> 1, left |-> as_u32(preoutput),
                     right |-> as_u32(bv_shr(preoutput, 32))])
        left == folded[1]
        right == folded[2]
    IN  des_permute(IP_INV_BITS, bv_or(bv_shl(as_u64(right), 32), as_u64(left)))

des(plaintext, round_keys) ==
    LET preoutput == des_permute(IP_BITS, plaintext)
        folded == des_fold(round_keys,
                    [i |-> 1, left |-> as_u32(preoutput),
                     right |-> as_u32(bv_shr(preoutput, 32))])
        \* let (right, left) = fold(..): the output is swapped
        right == folded[1]
        left == folded[2]
    IN  des_permute(IP_INV_BITS, bv_or(bv_shl(as_u64(right), 32), as_u64(left)))

Reverse(seq) == Built([k \in 1..Len(seq) |-> seq[Len(seq) + 1 - k]])

des_encrypt(plaintext, key) == des(plaintext, des_round_keys(key))

\* des_decrypt with the round keys in the order of encryption
des_decrypt_keys_forward(ciphertext, key) == des(ciphertext, des_round_keys(key))

des_decrypt(ciphertext, key) == des(ciphertext, Reverse(des_round_keys(key)))

(***************************************************************************)
(* Byte arrays and further u32 operations shared by the hashes             *)
(***************************************************************************)

Zeros(n) == Built([k \in 1..n |-> 0])

\* dst[start .. start + src.len()].copy_from_slice(src), start 0-based
copy_from_slice(dst, start, src) ==
    Built([k \in 1..Len(dst) |->
              IF k > start /\ k <= start + Len(src) THEN src[k - start] ELSE dst[k]])

\* n as u32, for 0 <= n < 2^31
u32_of(n) == <<n \div 65536, n % 65536>>
\* x as usize, for x < 2^15 * 2^16
usize_of(x) == (x[1] * 65536) + x[2]
\* x >> s on a u32, s in 0..15
shr_lt16(x, s) ==
    <<x[1] \div (2 ^ s), (x[2] \div (2 ^ s)) + ((x[1] % (2 ^ s)) * (2 ^ (16 - s)))>>
\* x >> s on a u32, s in 16..31
shr_ge16(x, s) == <<0, x[1] \div (2 ^ (s - 16))>>
u32_lt(x, y) == x[1] < y[1] \/ (x[1] = y[1] /\ x[2] < y[2])

(***************************************************************************)
(* MD5 (md5.rs)                                                            *)
(***************************************************************************)

md5_new ==
    [state |-> <<U32(\h6745, \h2301), U32(\hEFCD, \hAB89),
                 U32(\h98BA, \hDCFE), U32(\h1032, \h5476)>>,
     count |-> <<U32Zero, U32Zero>>,
     buffer |-> Zeros(64)]

md5_f(x, y, z) == u32_or(u32_and(x, y), u32_and(u32_not(x), z))
md5_g(x, y, z) == u32_or(u32_and(x, z), u32_and(y, u32_not(z)))
md5_h(x, y, z) == u32_xor(u32_xor(x, y), z)
md5_i(x, y, z) == u32_xor(y, u32_or(x, u32_not(z)))

\* the function handed to step as its last argument
md5_call(f, x, y, z) ==
    CASE f = "f" -> md5_f(x, y, z)
      [] f = "g" -> md5_g(x, y, z)
      [] f = "h" -> md5_h(x, y, z)
      [] f = "i" -> md5_i(x, y, z)

\* step without the closing addition of b
md5_step_without_b(a, b, c, d, x, s, ac, f) ==
    LET a1 == wrapping_add(a, wrapping_add(wrapping_add(md5_call(f, b, c, d), x), ac))
    IN  rotate_left(a1, s)

\* step: the new value of *a
md5_step(a, b, c, d, x, s, ac, f) ==
    LET a1 == wrapping_add(a, wrapping_add(wrapping_add(md5_call(f, b, c, d), x), ac))
        a2 == rotate_left(a1, s)
    IN  wrapping_add(a2, b)

S11 == 7
S12 == 12
S13 == 17
S14 == 22
S21 == 5
S22 == 9
S23 == 14
S24 == 20
S31 == 4
S32 == 11
S33 == 16
S34 == 23
S41 == 6
S42 == 10
S43 == 15
S44 == 21

\* the 64 calls of step in transform, in order: the registers passed as
\* &mut a, b, c, d (1 = a, 2 = b, 3 = c, 4 = d), the index into x, the shift,
\* the additive constant and the function
MD5_STEPS == <<
    [a |-> 1, b |-> 2, c |-> 3, d |-> 4, x |-> 0, s |-> S11, ac |-> U32(\hD76A, \hA478), f |-> "f"],
    [a |-> 4, b |-> 1, c |-> 2, d |-> 3, x |-> 1, s |-> S12, ac |-> U32(\hE8C7, \hB756), f |-> "f"],
    [a |-> 3, b |-> 4, c |-> 1, d |-> 2, x |-> 2, s |-> S13, ac |-> U32(\h2420, \h70DB), f |-> "f"],
    [a |-> 2, b |-> 3, c |-> 4, d |-> 1, x |-> 3, s |-> S14, ac |-> U32(\hC1BD, \hCEEE), f |-> "f"],
    [a |-> 1, b |-> 2, c |-> 3, d |-> 4, x |-> 4, s |-> S11, ac |-> U32(\hF57C, \h0FAF), f |-> "f"],
    [a |-> 4, b |-> 1, c |-> 2, d |-> 3, x |-> 5, s |-> S12, ac |-> U32(\h4787, \hC62A), f |-> "f"],
    [a |-> 3, b |-> 4, c |-> 1, d |-> 2, x |-> 6, s |-> S13, ac |-> U32(\hA830, \h4613), f |-> "f"],
    [a |-> 2, b |-> 3, c |-> 4, d |-> 1, x |-> 7, s |-> S14, ac |-> U32(\hFD46, \h9501), f |-> "f"],
    [a |-> 1, b |-> 2, c |-> 3, d |-> 4, x |-> 8, s |-> S11, ac |-> U32(\h6980, \h98D8), f |-> "f"],
    [a |-> 4, b |-> 1, c |-> 2, d |-> 3, x |-> 9, s |-> S12, ac |-> U32(\h8B44, \hF7AF), f |-> "f"],
    [a |-> 3, b |-> 4, c |-> 1, d |-> 2, x |-> 10, s |-> S13, ac |-> U32(\hFFFF, \h5BB1), f |-> "f"],
    [a |-> 2, b |-> 3, c |-> 4, d |-> 1, x |-> 11, s |-> S14, ac |-> U32(\h895C, \hD7BE), f |-> "f"],
    [a |-> 1, b |-> 2, c |-> 3, d |-> 4, x |-> 12, s |-> S11, ac |-> U32(\h6B90, \h1122), f |-> "f"],
    [a |-> 4, b |-> 1, c |-> 2, d |-> 3, x |-> 13, s |-> S12, ac |-> U32(\hFD98, \h7193), f |-> "f"],
    [a |-> 3, b |-> 4, c |-> 1, d |-> 2, x |-> 14, s |-> S13, ac |-> U32(\hA679, \h438E), f |-> "f"],
    [a |-> 2, b |-> 3, c |-> 4, d |-> 1, x |-> 15, s |-> S14, ac |-> U32(\h49B4, \h0821), f |-> "f"],
    [a |-> 1, b |-> 2, c |-> 3, d |-> 4, x |-> 1, s |-> S21, ac |-> U32(\hF61E, \h2562), f |-> "g"],
    [a |-> 4, b |-> 1, c |-> 2, d |-> 3, x |-> 6, s |-> S22, ac |-> U32(\hC040, \hB340), f |-> "g"],
    [a |-> 3, b |-> 4, c |-> 1, d |-> 2, x |-> 11, s |-> S23, ac |-> U32(\h265E, \h5A51), f |-> "g"],
    [a |-> 2, b |-> 3, c |-> 4, d |-> 1, x |-> 0, s |-> S24, ac |-> U32(\hE9B6, \hC7AA), f |-> "g"],
    [a |-> 1, b |-> 2, c |-> 3, d |-> 4, x |-> 5, s |-> S21, ac |-> U32(\hD62F, \h105D), f |-> "g"],
    [a |-> 4, b |-> 1, c |-> 2, d |-> 3, x |-> 10, s |-> S22, ac |-> U32(\h0244, \h1453), f |-> "g"],
    [a |-> 3, b |-> 4, c |-> 1, d |-> 2, x |-> 15, s |-> S23, ac |-> U32(\hD8A1, \hE681), f |-> "g"],
    [a |-> 2, b |-> 3, c |-> 4, d |-> 1, x |-> 4, s |-> S24, ac |-> U32(\hE7D3, \hFBC8), f |-> "g"],
    [a |-> 1, b |-> 2, c |-> 3, d |-> 4, x |-> 9, s |-> S21, ac |-> U32(\h21E1, \hCDE6), f |-> "g"],
    [a |-> 4, b |-> 1, c |-> 2, d |-> 3, x |-> 14, s |-> S22, ac |-> U32(\hC337, \h07D6), f |-> "g"],
    [a |-> 3, b |-> 4, c |-> 1, d |-> 2, x |-> 3, s |-> S23, ac |-> U32(\hF4D5, \h0D87), f |-> "g"],
    [a |-> 2, b |-> 3, c |-> 4, d |-> 1, x |-> 8, s |-> S24, ac |-> U32(\h455A, \h14ED), f |-> "g"],
    [a |-> 1, b |-> 2, c |-> 3, d |-> 4, x |-> 13, s |-> S21, ac |-> U32(\hA9E3, \hE905), f |-> "g"],
    [a |-> 4, b |-> 1, c |-> 2, d |-> 3, x |-> 2, s |-> S22, ac |-> U32(\hFCEF, \hA3F8), f |-> "g"],
    [a |-> 3, b |-> 4, c |-> 1, d |-> 2, x |-> 7, s |-> S23, ac |-> U32(\h676F, \h02D9), f |-> "g"],
    [a |-> 2, b |-> 3, c |-> 4, d |-> 1, x |-> 12, s |-> S24, ac |-> U32(\h8D2A, \h4C8A), f |-> "g"],
    [a |-> 1, b |-> 2, c |-> 3, d |-> 4, x |-> 5, s |-> S31, ac |-> U32(\hFFFA, \h3942), f |-> "h"],
    [a |-> 4, b |-> 1, c |-> 2, d |-> 3, x |-> 8, s |-> S32, ac |-> U32(\h8771, \hF681), f |-> "h"],
    [a |-> 3, b |-> 4, c |-> 1, d |-> 2, x |-> 11, s |-> S33, ac |-> U32(\h6D9D, \h6122), f |-> "h"],
    [a |-> 2, b |-> 3, c |-> 4, d |-> 1, x |-> 14, s |-> S34, ac |-> U32(\hFDE5, \h380C), f |-> "h"],
    [a |-> 1, b |-> 2, c |-> 3, d |-> 4, x |-> 1, s |-> S31, ac |-> U32(\hA4BE, \hEA44), f |-> "h"],
    [a |-> 4, b |-> 1, c |-> 2, d |-> 3, x |-> 4, s |-> S32, ac |-> U32(\h4BDE, \hCFA9), f |-> "h"],
    [a |-> 3, b |-> 4, c |-> 1, d |-> 2, x |-> 7, s |-> S33, ac |-> U32(\hF6BB, \h4B60), f |-> "h"],
    [a |-> 2, b |-> 3, c |-> 4, d |-> 1, x |-> 10, s |-> S34, ac |-> U32(\hBEBF, \hBC70), f |-> "h"],
    [a |-> 1, b |-> 2, c |-> 3, d |-> 4, x |-> 13, s |-> S31, ac |-> U32(\h289B, \h7EC6), f |-> "h"],
    [a |-> 4, b |-> 1, c |-> 2, d |-> 3, x |-> 0, s |-> S32, ac |-> U32(\hEAA1, \h27FA), f |-> "h"],
    [a |-> 3, b |-> 4, c |-> 1, d |-> 2, x |-> 3, s |-> S33, ac |-> U32(\hD4EF, \h3085), f |-> "h"],
    [a |-> 2, b |-> 3, c |-> 4, d |-> 1, x |-> 6, s |-> S34, ac |-> U32(\h0488, \h1D05), f |-> "h"],
    [a |-> 1, b |-> 2, c |-> 3, d |-> 4, x |-> 9, s |-> S31, ac |-> U32(\hD9D4, \hD039), f |-> "h"],
    [a |-> 4, b |-> 1, c |-> 2, d |-> 3, x |-> 12, s |-> S32, ac |-> U32(\hE6DB, \h99E5), f |-> "h"],
    [a |-> 3, b |-> 4, c |-> 1, d |-> 2, x |-> 15, s |-> S33, ac |-> U32(\h1FA2, \h7CF8), f |-> "h"],
    [a |-> 2, b |-> 3, c |-> 4, d |-> 1, x |-> 2, s |-> S34, ac |-> U32(\hC4AC, \h5665), f |-> "h"],
    [a |-> 1, b |-> 2, c |-> 3, d |-> 4, x |-> 0, s |-> S41, ac |-> U32(\hF429, \h2244), f |-> "i"],
    [a |-> 4, b |-> 1, c |-> 2, d |-> 3, x |-> 7, s |-> S42, ac |-> U32(\h432A, \hFF97), f |-> "i"],
    [a |-> 3, b |-> 4, c |-> 1, d |-> 2, x |-> 14, s |-> S43, ac |-> U32(\hAB94, \h23A7), f |-> "i"],
    [a |-> 2, b |-> 3, c |-> 4, d |-> 1, x |-> 5, s |-> S44, ac |-> U32(\hFC93, \hA039), f |-> "i"],
    [a |-> 1, b |-> 2, c |-> 3, d |-> 4, x |-> 12, s |-> S41, ac |-> U32(\h655B, \h59C3), f |-> "i"],
    [a |-> 4, b |-> 1, c |-> 2, d |-> 3, x |-> 3, s |-> S42, ac |-> U32(\h8F0C, \hCC92), f |-> "i"],
    [a |-> 3, b |-> 4, c |-> 1, d |-> 2, x |-> 10, s |-> S43, ac |-> U32(\hFFEF, \hF47D), f |-> "i"],
    [a |-> 2, b |-> 3, c |-> 4, d |-> 1, x |-> 1, s |-> S44, ac |-> U32(\h8584, \h5DD1), f |-> "i"],
    [a |-> 1, b |-> 2, c |-> 3, d |-> 4, x |-> 8, s |-> S41, ac |-> U32(\h6FA8, \h7E4F), f |-> "i"],
    [a |-> 4, b |-> 1, c |-> 2, d |-> 3, x |-> 15, s |-> S42, ac |-> U32(\hFE2C, \hE6E0), f |-> "i"],
    [a |-> 3, b |-> 4, c |-> 1, d |-> 2, x |-> 6, s |-> S43, ac |-> U32(\hA301, \h4314), f |-> "i"],
    [a |-> 2, b |-> 3, c |-> 4, d |-> 1, x |-> 13, s |-> S44, ac |-> U32(\h4E08, \h11A1), f |-> "i"],
    [a |-> 1, b |-> 2, c |-> 3, d |-> 4, x |-> 4, s |-> S41, ac |-> U32(\hF753, \h7E82), f |-> "i"],
    [a |-> 4, b |-> 1, c |-> 2, d |-> 3, x |-> 11, s |-> S42, ac |-> U32(\hBD3A, \hF235), f |-> "i"],
    [a |-> 3, b |-> 4, c |-> 1, d |-> 2, x |-> 2, s |-> S43, ac |-> U32(\h2AD7, \hD2BB), f |-> "i"],
    [a |-> 2, b |-> 3, c |-> 4, d |-> 1, x |-> 9, s |-> S44, ac |-> U32(\hEB86, \hD391), f |-> "i"]
>>

RECURSIVE md5_transform_loop(_, _)
md5_transform_loop(x, st) ==
    IF st.n > Len(MD5_STEPS) THEN st.r
    ELSE LET e == MD5_STEPS[st.n]
         IN  md5_transform_loop(x,
                [n |-> st.n + 1,
                 r |-> [st.r EXCEPT ![e.a] =
                          md5_step(st.r[e.a], st.r[e.b], st.r[e.c], st.r[e.d],
                                   x[e.x + 1], e.s, e.ac, e.f)]])

\* transform: the new state
md5_transform(state, x) ==
    LET r == md5_transform_loop(x, [n |-> 1, r |-> state])
    IN  <<wrapping_add(state[1], r[1]), wrapping_add(state[2], r[2]),
          wrapping_add(state[3], r[3]), wrapping_add(state[4], r[4])>>

\* encode: the words as little-endian bytes
md5_encode(input) ==
    Built([k \in 1..(4 * Len(input)) |-> to_le_bytes(input[((k - 1) \div 4) + 1])[((k - 1) % 4) + 1]])

\* decode: the 16 little-endian words of the buffer
md5_decode(bytes) ==
    Built([k \in 1..16 |->
              from_le_bytes(<<bytes[(4 * (k - 1)) + 1], bytes[(4 * (k - 1)) + 2],
                              bytes[(4 * (k - 1)) + 3], bytes[(4 * (k - 1)) + 4]>>)])

PADDING == <<
    \h80, \h00, \h00, \h00, \h00, \h00, \h00, \h00, \h00, \h00, \h00, \h00, \h00, \h00, \h00, \h00,
    \h00, \h00, \h00, \h00, \h00, \h00, \h00, \h00, \h00, \h00, \h00, \h00, \h00, \h00, \h00, \h00,
    \h00, \h00, \h00, \h00, \h00, \h00, \h00, \h00, \h00, \h00, \h00, \h00, \h00, \h00, \h00, \h00,
    \h00, \h00, \h00, \h00, \h00, \h00, \h00, \h00, \h00, \h00, \h00, \h00, \h00, \h00, \h00, \h00
>>

\* the body of the loop of update: one byte of input.  transforms counts the
\* calls of transform.
md5_update_byte(byte, st) ==
    LET buffer == [st.buffer EXCEPT ![st.idx + 1] = byte]
        idx == st.idx + 1
    IN  IF idx = 64
        THEN [buffer |-> buffer, idx |-> 0,
              state |-> md5_transform(st.state, md5_decode(buffer)),
              transforms |-> st.transforms + 1]
        ELSE [buffer |-> buffer, idx |-> idx, state |-> st.state, transforms |-> st.transforms]

\* for &byte in input[lo..hi] (0-based, hi exclusive), in order.  The range is
\* halved so that the evaluation stays shallow; idx < 64 holds after every byte,
\* and testing it makes TLC finish the first half before it starts the second.
RECURSIVE md5_update_loop(_, _, _, _)
md5_update_loop(input, st, lo, hi) ==
    IF hi <= lo THEN st
    ELSE IF hi = lo + 1 THEN md5_update_byte(input[hi], st)
    ELSE LET mid == (lo + hi) \div 2
             first == md5_update_loop(input, st, lo, mid)
         IN  IF first.idx < 64 THEN md5_update_loop(input, first, mid, hi) ELSE first

\* ((self.count[0] >> 3) & 0x3f) as usize: the number of bytes in the buffer
md5_idx(self) == usize_of(u32_and(shr_lt16(self.count[1], 3), U32(0, \h3F)))

\* update that starts every call at the front of the buffer
\* the bit counter lines of update (md5.rs:30-35) for an input of input_len
\* bytes, input_len being input.len() as u32, with the carry left out
md5_count_without_carry(count, input_len) ==
    <<wrapping_add(count[1], shl_lt16(input_len, 3)),
      wrapping_add(count[2], shr_ge16(input_len, 29))>>

\* the bit counter lines of update (md5.rs:30-35): count[0] is count[1] here
md5_count(count, input_len) ==
    LET count0 == wrapping_add(count[1], shl_lt16(input_len, 3))
        carried == IF u32_lt(count0, shl_lt16(input_len, 3))
                   THEN wrapping_add(count[2], U32(0, 1))
                   ELSE count[2]
    IN  <<count0, wrapping_add(carried, shr_ge16(input_len, 29))>>

md5_update_from_buffer_start(self, input) ==
    LET idx == 0
        input_len == u32_of(Len(input))
        count0 == wrapping_add(self.count[1], shl_lt16(input_len, 3))
        carried == IF u32_lt(count0, shl_lt16(input_len, 3))
                   THEN wrapping_add(self.count[2], U32(0, 1))
                   ELSE self.count[2]
        count1 == wrapping_add(carried, shr_ge16(input_len, 29))
        done == md5_update_loop(input,
                  [buffer |-> self.buffer, idx |-> idx, state |-> self.state, transforms |-> 0],
                  0, Len(input))
    IN  [state |-> done.state, count |-> <<count0, count1>>, buffer |-> done.buffer]

md5_update(self, input) ==
    LET idx == usize_of(u32_and(shr_lt16(self.count[1], 3), U32(0, \h3F)))
        input_len == u32_of(Len(input))
        done == md5_update_loop(input,
                  [buffer |-> self.buffer, idx |-> idx, state |-> self.state, transforms |-> 0],
                  0, Len(input))
    IN  [state |-> done.state, count |-> md5_count(self.count, input_len), buffer |-> done.buffer]

\* the number of calls of transform that update(input) makes
md5_update_transforms(self, input) ==
    md5_update_loop(input,
        [buffer |-> self.buffer, idx |-> md5_idx(self), state |-> self.state, transforms |-> 0],
        0, Len(input)).transforms

\* pad_len of digest with the test idx <= 56: no padding when idx is 56
md5_pad_len_from_57(self) ==
    IF md5_idx(self) <= 56 THEN 56 - md5_idx(self) ELSE 120 - md5_idx(self)

\* let idx / pad_len of digest
md5_pad_len(self) ==
    IF usize_of(u32_and(shr_lt16(self.count[1], 3), U32(0, \h3F))) < 56
    THEN 56 - usize_of(u32_and(shr_lt16(self.count[1], 3), U32(0, \h3F)))
    ELSE 120 - usize_of(u32_and(shr_lt16(self.count[1], 3), U32(0, \h3F)))

\* the Md5 as it is when digest returns: padded, and the bit count of the
\* message (taken before the padding) appended
md5_digest_self(self) ==
    md5_update(md5_update(self, SubSeq(PADDING, 1, md5_pad_len(self))),
               md5_encode(self.count))

md5_digest(self) == md5_encode(md5_digest_self(self).state)

md5(input) == md5_digest(md5_update(md5_new, input))

(***************************************************************************)
(* SHA-1 (sha1.rs)                                                         *)
(*                                                                         *)
(* Sha1.len is a u64 counting bytes; the messages of this model are far    *)
(* shorter than 2^28 bytes, so len and len << 3 are kept as integers.      *)
(***************************************************************************)

sha1_new ==
    [state |-> <<U32(\h6745, \h2301), U32(\hEFCD, \hAB89), U32(\h98BA, \hDCFE),
                 U32(\h1032, \h5476), U32(\hC3D2, \hE1F0)>>,
     len |-> 0,
     block_idx |-> 0,
     block |-> Zeros(64)]

K0 == U32(\h5A82, \h7999)
K1 == U32(\h6ED9, \hEBA1)
K2 == U32(\h8F1B, \hBCDC)
K3 == U32(\hCA62, \hC1D6)

\* const MASK: usize = 0xF
MASK == \hF

\* the closures compress hands to step0 and step
sha1_ch(b, c, d) == u32_or(u32_and(b, c), u32_and(u32_not(b), d))
sha1_parity(b, c, d) == u32_xor(u32_xor(b, c), d)
sha1_maj(b, c, d) == u32_or(u32_or(u32_and(b, c), u32_and(b, d)), u32_and(c, d))

\* the closure f of step0 / step applied; f names it
sha1_call(f, b, c, d) ==
    CASE f = "ch" -> sha1_ch(b, c, d)
      [] f = "parity" -> sha1_parity(b, c, d)
      [] f = "maj" -> sha1_maj(b, c, d)

\* step0, with the closure f and the const parameter K as arguments
sha1_step0(h, w, t, K, f) ==
    LET s == And8[t][\hF]
        e == wrapping_add(wrapping_add(wrapping_add(wrapping_add(
                 rotate_left(h[1], 5), sha1_call(f, h[2], h[3], h[4])), h[5]), w[s + 1]), K)
    IN  <<e, h[1], rotate_left(h[2], 30), h[3], h[4]>>

\* w[s] with the tap (s + 3) in the place of (s + 2)
sha1_schedule_tap_3(w, s) ==
    rotate_left(u32_xor(u32_xor(u32_xor(w[And8[s + 13][MASK] + 1],
                                        w[And8[s + 8][MASK] + 1]),
                                w[And8[s + 3][MASK] + 1]),
                        w[s + 1]), 1)

\* w[s] as step sets it
sha1_schedule(w, s) ==
    rotate_left(u32_xor(u32_xor(u32_xor(w[And8[s + 13][MASK] + 1],
                                        w[And8[s + 8][MASK] + 1]),
                                w[And8[s + 2][MASK] + 1]),
                        w[s + 1]), 1)

\* step: the new h and the updated schedule w
sha1_step(h, w, t, K, f) ==
    [h |-> <<wrapping_add(wrapping_add(wrapping_add(wrapping_add(
                 rotate_left(h[1], 5), sha1_call(f, h[2], h[3], h[4])), h[5]),
                 sha1_schedule(w, And8[t][\hF])), K),
             h[1], rotate_left(h[2], 30), h[3], h[4]>>,
     w |-> [w EXCEPT ![And8[t][\hF] + 1] = sha1_schedule(w, And8[t][\hF])]]

\* for t in st.t..end { h = step0::<_, K>(h, &w, t, f) }
sha1_loop0(st, end, K, f) ==
    LET RECURSIVE turns(_)
        turns(s) ==
            IF s.t >= end THEN s
            ELSE turns([t |-> s.t + 1, h |-> sha1_step0(s.h, s.w, s.t, K, f), w |-> s.w])
    IN  turns(st)

\* one turn of for t in st.t..end { h = step::<_, K>(h, &mut w, t, f) }
sha1_loop_turn(st, K, f) ==
    [t |-> st.t + 1,
     h |-> sha1_step(st.h, st.w, st.t, K, f).h,
     w |-> sha1_step(st.h, st.w, st.t, K, f).w]

\* for t in st.t..end { h = step::<_, K>(h, &mut w, t, f) }
sha1_loop(st, end, K, f) ==
    LET RECURSIVE turns(_)
        turns(s) == IF s.t >= end THEN s ELSE turns(sha1_loop_turn(s, K, f))
    IN  turns(st)

\* the first loop of compress: w[0..16] from the bytes of the block
sha1_block_words(block) ==
    Built([t \in 1..16 |->
             from_le_bytes(<<block[(4 * (t - 1)) + 4], block[(4 * (t - 1)) + 3],
                             block[(4 * (t - 1)) + 2], block[(4 * (t - 1)) + 1]>>)])

\* the end of compress: h is added to the state word by word
sha1_compress_add(state, h) ==
    <<wrapping_add(state[1], h[1]), wrapping_add(state[2], h[2]),
      wrapping_add(state[3], h[3]), wrapping_add(state[4], h[4]),
      wrapping_add(state[5], h[5])>>

\* compress: the new state
sha1_compress(state, block) ==
    LET w == sha1_block_words(block)
        l0 == sha1_loop0([t |-> 0, h |-> state, w |-> w], 16, K0, "ch")
        l1 == sha1_loop(l0, 20, K0, "ch")
        l2 == sha1_loop(l1, 40, K1, "parity")
        l3 == sha1_loop(l2, 60, K2, "maj")
        l4 == sha1_loop(l3, 80, K3, "parity")
    IN  sha1_compress_add(state, l4.h)

\* for chunk in input.chunks_exact(64) { compress(&mut state, chunk) }
RECURSIVE sha1_chunks_loop(_, _)
sha1_chunks_loop(input, st) ==
    IF st.k + 64 > Len(input) THEN st
    ELSE sha1_chunks_loop(input,
            [k |-> st.k + 64,
             state |-> sha1_compress(st.state, SubSeq(input, st.k + 1, st.k + 64))])

\* the early return of update with len counting the call as a byte
sha1_update_buffer_counts_call(self, input) ==
    [self EXCEPT !.len = self.len + Len(input) + 1,
                 !.block = copy_from_slice(self.block, self.block_idx, input),
                 !.block_idx = self.block_idx + Len(input)]

\* update when the input does not fill the block: the early return
sha1_update_buffer(self, input) ==
    [self EXCEPT !.len = self.len + Len(input),
                 !.block = copy_from_slice(self.block, self.block_idx, input),
                 !.block_idx = self.block_idx + Len(input)]

\* update when the block holds bytes already: the block is filled with head
\* and compressed
sha1_update_head(self, head) ==
    [self EXCEPT !.block = copy_from_slice(self.block, self.block_idx, head),
                 !.state = sha1_compress(self.state,
                                         copy_from_slice(self.block, self.block_idx, head)),
                 !.block_idx = 0]

\* the end of update with the remainder taken from the front of the input
sha1_update_chunks_front_remainder(self, input) ==
    [self EXCEPT !.state = sha1_chunks_loop(input, [k |-> 0, state |-> self.state]).state,
                 !.block = copy_from_slice(self.block, 0, SubSeq(input, 1, Len(input) % 64)),
                 !.block_idx = Len(input) % 64]

\* the end of update: whole chunks are compressed from the input, and the
\* remainder is copied to the front of the block
sha1_update_chunks(self, input) ==
    [self EXCEPT !.state = sha1_chunks_loop(input, [k |-> 0, state |-> self.state]).state,
                 !.block = copy_from_slice(self.block, 0,
                              SubSeq(input, (Len(input) - (Len(input) % 64)) + 1, Len(input))),
                 !.block_idx = Len(input) % 64]

\* update that forgets the bytes waiting in the block
sha1_update_without_head(self, input) ==
    IF Len(input) < 64 - self.block_idx
    THEN sha1_update_buffer(self, input)
    ELSE sha1_update_chunks([self EXCEPT !.len = self.len + Len(input)], input)

\* update that takes the early return also when the input fills the block
sha1_update_fill_uncompressed(self, input) ==
    IF Len(input) <= 64 - self.block_idx
    THEN sha1_update_buffer(self, input)
    ELSE IF self.block_idx # 0
    THEN sha1_update_chunks(
             sha1_update_head([self EXCEPT !.len = self.len + Len(input)],
                              SubSeq(input, 1, 64 - self.block_idx)),
             SubSeq(input, (64 - self.block_idx) + 1, Len(input)))
    ELSE sha1_update_chunks([self EXCEPT !.len = self.len + Len(input)], input)

sha1_update(self, input) ==
    IF Len(input) < 64 - self.block_idx
    THEN sha1_update_buffer(self, input)
    ELSE IF self.block_idx # 0
    THEN sha1_update_chunks(
             sha1_update_head([self EXCEPT !.len = self.len + Len(input)],
                              SubSeq(input, 1, 64 - self.block_idx)),
             SubSeq(input, (64 - self.block_idx) + 1, Len(input)))
    ELSE sha1_update_chunks([self EXCEPT !.len = self.len + Len(input)], input)

\* the chunks input.chunks_exact(64) yields
sha1_chunks_exact(input) ==
    [i \in 1..(Len(input) \div 64) |-> SubSeq(input, (64 * (i - 1)) + 1, 64 * i)]

\* the blocks update hands to compress, in order: the block filled with head
\* when bytes were waiting, then the whole chunks of the rest of the input
sha1_update_compressed(self, input) ==
    IF Len(input) < 64 - self.block_idx
    THEN <<>>
    ELSE IF self.block_idx # 0
    THEN <<copy_from_slice(self.block, self.block_idx,
                           SubSeq(input, 1, 64 - self.block_idx))>>
             \o sha1_chunks_exact(SubSeq(input, (64 - self.block_idx) + 1, Len(input)))
    ELSE sha1_chunks_exact(input)

\* len.to_be_bytes(): the length in bytes, not in bits
u64_to_be_bytes_unshifted(len) == <<0, 0, 0, 0>> \o to_be_bytes(u32_of(len))

\* (len << 3).to_be_bytes() for len < 2^28
u64_shl3_to_be_bytes(len) == <<0, 0, 0, 0>> \o to_be_bytes(u32_of(len * 8))

\* block[idx] = 0x80; block[idx + 1 .. end] = 0
sha1_pad_fill(block, idx, end) ==
    Built([k \in 1..64 |->
              IF k = idx + 1 THEN \h80
              ELSE IF k > idx + 1 /\ k <= end THEN 0
              ELSE block[k]])

\* pad when block_idx > 55, up to block_idx = 64: the block is closed
sha1_pad_close_block(self) ==
    [self EXCEPT !.block = sha1_pad_fill(self.block, self.block_idx, 64),
                 !.block_idx = 64]

\* pad when block_idx > 55, from the compression of the closed block on: the
\* block is compressed and cleared up to the length field
sha1_pad_fresh_block(self) ==
    [self EXCEPT !.state = sha1_compress(self.state, self.block),
                 !.block = copy_from_slice(self.block, 0, Zeros(56)),
                 !.block_idx = 56]

\* pad when block_idx > 55: the block is closed, compressed, and cleared up
\* to the length field
sha1_pad_extra_block(self) == sha1_pad_fresh_block(sha1_pad_close_block(self))

\* pad when block_idx <= 55, without the loop that clears the block
sha1_pad_marker_only(self) ==
    [self EXCEPT !.block = sha1_pad_fill(self.block, self.block_idx, self.block_idx + 1),
                 !.block_idx = 56]

\* pad when block_idx <= 55
sha1_pad_same_block(self) ==
    [self EXCEPT !.block = sha1_pad_fill(self.block, self.block_idx, 56),
                 !.block_idx = 56]

\* the end of pad: the message length in bits, and the last compression
sha1_pad_length(self) ==
    [self EXCEPT !.block = copy_from_slice(self.block, 56, u64_shl3_to_be_bytes(self.len)),
                 !.state = sha1_compress(self.state,
                              copy_from_slice(self.block, 56, u64_shl3_to_be_bytes(self.len)))]

sha1_pad(self) ==
    sha1_pad_length(IF self.block_idx > 55
                    THEN sha1_pad_extra_block(self)
                    ELSE sha1_pad_same_block(self))

\* the bytes digest returns from the padded state
sha1_digest_bytes(state) ==
    Built([k \in 1..20 |-> to_le_bytes(state[((k - 1) \div 4) + 1])[4 - ((k - 1) % 4)]])

\* the Sha1 as it is when digest returns
sha1_digest_self(self) == sha1_pad(self)

sha1_digest(self) == sha1_digest_bytes(sha1_pad(self).state)

sha1(data) == sha1_digest(sha1_update(sha1_new, data))

(***************************************************************************)
(* AES-128 (aes.rs).  The state and the key are 16-byte arrays, the round   *)
(* keys u32 words whose little-endian bytes are the key bytes.             *)
(***************************************************************************)

NK == 4
NB == 4
NR == 10

S_BOX == <<
  <<
    \h63, \h7C, \h77, \h7B, \hF2, \h6B, \h6F, \hC5, \h30, \h01, \h67, \h2B, \hFE, \hD7, \hAB, \h76
  >>,
  <<
    \hCA, \h82, \hC9, \h7D, \hFA, \h59, \h47, \hF0, \hAD, \hD4, \hA2, \hAF, \h9C, \hA4, \h72, \hC0
  >>,
  <<
    \hB7, \hFD, \h93, \h26, \h36, \h3F, \hF7, \hCC, \h34, \hA5, \hE5, \hF1, \h71, \hD8, \h31, \h15
  >>,
  <<
    \h04, \hC7, \h23, \hC3, \h18, \h96, \h05, \h9A, \h07, \h12, \h80, \hE2, \hEB, \h27, \hB2, \h75
  >>,
  <<
    \h09, \h83, \h2C, \h1A, \h1B, \h6E, \h5A, \hA0, \h52, \h3B, \hD6, \hB3, \h29, \hE3, \h2F, \h84
  >>,
  <<
    \h53, \hD1, \h00, \hED, \h20, \hFC, \hB1, \h5B, \h6A, \hCB, \hBE, \h39, \h4A, \h4C, \h58, \hCF
  >>,
  <<
    \hD0, \hEF, \hAA, \hFB, \h43, \h4D, \h33, \h85, \h45, \hF9, \h02, \h7F, \h50, \h3C, \h9F, \hA8
  >>,
  <<
    \h51, \hA3, \h40, \h8F, \h92, \h9D, \h38, \hF5, \hBC, \hB6, \hDA, \h21, \h10, \hFF, \hF3, \hD2
  >>,
  <<
    \hCD, \h0C, \h13, \hEC, \h5F, \h97, \h44, \h17, \hC4, \hA7, \h7E, \h3D, \h64, \h5D, \h19, \h73
  >>,
  <<
    \h60, \h81, \h4F, \hDC, \h22, \h2A, \h90, \h88, \h46, \hEE, \hB8, \h14, \hDE, \h5E, \h0B, \hDB
  >>,
  <<
    \hE0, \h32, \h3A, \h0A, \h49, \h06, \h24, \h5C, \hC2, \hD3, \hAC, \h62, \h91, \h95, \hE4, \h79
  >>,
  <<
    \hE7, \hC8, \h37, \h6D, \h8D, \hD5, \h4E, \hA9, \h6C, \h56, \hF4, \hEA, \h65, \h7A, \hAE, \h08
  >>,
  <<
    \hBA, \h78, \h25, \h2E, \h1C, \hA6, \hB4, \hC6, \hE8, \hDD, \h74, \h1F, \h4B, \hBD, \h8B, \h8A
  >>,
  <<
    \h70, \h3E, \hB5, \h66, \h48, \h03, \hF6, \h0E, \h61, \h35, \h57, \hB9, \h86, \hC1, \h1D, \h9E
  >>,
  <<
    \hE1, \hF8, \h98, \h11, \h69, \hD9, \h8E, \h94, \h9B, \h1E, \h87, \hE9, \hCE, \h55, \h28, \hDF
  >>,
  <<
    \h8C, \hA1, \h89, \h0D, \hBF, \hE6, \h42, \h68, \h41, \h99, \h2D, \h0F, \hB0, \h54, \hBB, \h16
  >>
>>

RCON == <<U32(0, 0), U32(0, 1), U32(0, 2), U32(0, 4), U32(0, 8), U32(0, \h10), U32(0, \h20), U32(0, \h40), U32(0, \h80), U32(0, \h1B), U32(0, \h36)>>

s_box(b) == S_BOX[(b \div 16) + 1][And8[b][\hF] + 1]

aes_sub_bytes(state) == Built([k \in 1..(4 * NB) |-> s_box(state[k])])

\* s2[i] of mix_columns without the line that adds h * 0x1B
aes_s2_unreduced(x) == (x * 2) % 256

\* s2[i] of mix_columns: x << 1 on a u8, and 0x1B added when the top bit was set
aes_s2(x) == xor8((x * 2) % 256, And8[x \div 128][1] * \h1B)

\* the four bytes mix_columns writes to column c (0-based)
aes_mix_column(state, c) ==
    LET s == <<state[(4 * c) + 1], state[(4 * c) + 2], state[(4 * c) + 3], state[(4 * c) + 4]>>
        s2 == <<aes_s2(s[1]), aes_s2(s[2]), aes_s2(s[3]), aes_s2(s[4])>>
    IN  <<xor8(xor8(xor8(xor8(s2[1], s[4]), s[3]), s2[2]), s[2]),
          xor8(xor8(xor8(xor8(s2[2], s[1]), s[4]), s2[3]), s[3]),
          xor8(xor8(xor8(xor8(s2[3], s[2]), s[1]), s2[4]), s[4]),
          xor8(xor8(xor8(xor8(s2[4], s[3]), s[2]), s2[1]), s[1])>>

aes_mix_columns(state) ==
    Built([k \in 1..(4 * NB) |-> aes_mix_column(state, (k - 1) \div 4)[((k - 1) % 4) + 1]])

\* at for a state stored row by row
aes_at_row_major(state, row, col) == state[((4 * row) + col) + 1]

aes_at(state, row, col) == state[(row + (4 * col)) + 1]

\* *at_mut(state, row, col) = v
aes_at_mut(state, row, col, v) == [state EXCEPT ![(row + (4 * col)) + 1] = v]

aes_shift_rows(state) ==
    LET s_1_0 == aes_at(state, 1, 0)
        a1 == aes_at_mut(state, 1, 0, aes_at(state, 1, 1))
        a2 == aes_at_mut(a1, 1, 1, aes_at(a1, 1, 2))
        a3 == aes_at_mut(a2, 1, 2, aes_at(a2, 1, 3))
        a4 == aes_at_mut(a3, 1, 3, s_1_0)
        s_2_0 == aes_at(a4, 2, 0)
        s_2_1 == aes_at(a4, 2, 1)
        b1 == aes_at_mut(a4, 2, 0, aes_at(a4, 2, 2))
        b2 == aes_at_mut(b1, 2, 1, aes_at(b1, 2, 3))
        b3 == aes_at_mut(b2, 2, 2, s_2_0)
        b4 == aes_at_mut(b3, 2, 3, s_2_1)
        s_3_3 == aes_at(b4, 3, 3)
        c1 == aes_at_mut(b4, 3, 3, aes_at(b4, 3, 2))
        c2 == aes_at_mut(c1, 3, 2, aes_at(c1, 3, 1))
        c3 == aes_at_mut(c2, 3, 1, aes_at(c2, 3, 0))
    IN  aes_at_mut(c3, 3, 0, s_3_3)

\* key_bytes of add_round_key: the little-endian bytes of the NB words
aes_key_bytes(round_keys) ==
    Built([k \in 1..(4 * Len(round_keys)) |->
              to_le_bytes(round_keys[((k - 1) \div 4) + 1])[((k - 1) % 4) + 1]])

\* add_round_key: the u128 XOR of state and key bytes, byte by byte
aes_add_round_key(state, round_keys) ==
    Built([k \in 1..(4 * NB) |-> xor8(state[k], aes_key_bytes(round_keys)[k])])

\* rot_word turning the bytes the other way
rot_word_left(w) == rotate_left(w, 8)

rot_word(w) == rotate_right(w, 8)

sub_word(w) ==
    from_le_bytes(<<s_box(to_le_bytes(w)[1]), s_box(to_le_bytes(w)[2]),
                    s_box(to_le_bytes(w)[3]), s_box(to_le_bytes(w)[4])>>)

\* res[i] of the second loop of key_expansion (i 0-based, NK <= i)
aes_key_word(res, i) ==
    u32_xor(res[(i - NK) + 1],
            IF i % NK = 0 THEN u32_xor(sub_word(rot_word(res[(i - 1) + 1])), RCON[(i \div NK) + 1])
            ELSE IF NK > 6 /\ i % NK = 4 THEN sub_word(res[(i - 1) + 1])
            ELSE res[(i - 1) + 1])

\* for i in st.i..NB * (NR + 1) { ... res[i] = res[i - NK] ^ tmp }
RECURSIVE aes_key_expansion_loop(_)
aes_key_expansion_loop(st) ==
    IF st.i >= NB * (NR + 1) THEN st.res
    ELSE aes_key_expansion_loop(
            [i |-> st.i + 1, res |-> [st.res EXCEPT ![st.i + 1] = aes_key_word(st.res, st.i)]])

aes_key_expansion(key) ==
    aes_key_expansion_loop(
        [i |-> NK,
         res |-> Built([k \in 1..(NB * (NR + 1)) |->
                          IF k <= NK
                          THEN from_le_bytes(<<key[(4 * (k - 1)) + 1], key[(4 * (k - 1)) + 2],
                                               key[(4 * (k - 1)) + 3], key[(4 * (k - 1)) + 4]>>)
                          ELSE U32Zero])])

\* &round_keys[round * NB..(round + 1) * NB]
aes_round_key(round_keys, round) == SubSeq(round_keys, (round * NB) + 1, (round + 1) * NB)

\* for round in st.round..NR { sub_bytes; mix_columns; add_round_key }
RECURSIVE aes_rounds_loop(_, _)
aes_rounds_loop(round_keys, st) ==
    IF st.round >= NR THEN st.state
    ELSE aes_rounds_loop(round_keys,
            [round |-> st.round + 1,
             state |-> aes_add_round_key(aes_mix_columns(aes_sub_bytes(st.state)),
                                         aes_round_key(round_keys, st.round))])

encrypt_impl(plaintext, round_keys) ==
    aes_add_round_key(
        aes_shift_rows(aes_sub_bytes(
            aes_rounds_loop(round_keys,
                [round |-> 1,
                 state |-> aes_add_round_key(plaintext, aes_round_key(round_keys, 0))]))),
        aes_round_key(round_keys, NR))

encrypt_128(plaintext, key) == encrypt_impl(plaintext, aes_key_expansion(key))

(***************************************************************************)
(* Twofish (twofish.rs).  A Key is the sequence of its 16, 24 or 32 bytes.  *)
(***************************************************************************)

NUM_ROUNDS == 16
NUM_WHITENING_SUBKEYS == 8

RS == <<
  <<
    \h01, \hA4, \h55, \h87, \h5A, \h58, \hDB, \h9E
  >>,
  <<
    \hA4, \h56, \h82, \hF3, \h1E, \hC6, \h68, \hE5
  >>,
  <<
    \h02, \hA1, \hFC, \hC1, \h47, \hAE, \h3D, \h19
  >>,
  <<
    \hA4, \h55, \h87, \h5A, \h58, \hDB, \h9E, \h03
  >>
>>

P0 == <<
    \hA9, \h67, \hB3, \hE8, \h04, \hFD, \hA3, \h76, \h9A, \h92, \h80, \h78, \hE4, \hDD, \hD1, \h38,
    \h0D, \hC6, \h35, \h98, \h18, \hF7, \hEC, \h6C, \h43, \h75, \h37, \h26, \hFA, \h13, \h94, \h48,
    \hF2, \hD0, \h8B, \h30, \h84, \h54, \hDF, \h23, \h19, \h5B, \h3D, \h59, \hF3, \hAE, \hA2, \h82,
    \h63, \h01, \h83, \h2E, \hD9, \h51, \h9B, \h7C, \hA6, \hEB, \hA5, \hBE, \h16, \h0C, \hE3, \h61,
    \hC0, \h8C, \h3A, \hF5, \h73, \h2C, \h25, \h0B, \hBB, \h4E, \h89, \h6B, \h53, \h6A, \hB4, \hF1,
    \hE1, \hE6, \hBD, \h45, \hE2, \hF4, \hB6, \h66, \hCC, \h95, \h03, \h56, \hD4, \h1C, \h1E, \hD7,
    \hFB, \hC3, \h8E, \hB5, \hE9, \hCF, \hBF, \hBA, \hEA, \h77, \h39, \hAF, \h33, \hC9, \h62, \h71,
    \h81, \h79, \h09, \hAD, \h24, \hCD, \hF9, \hD8, \hE5, \hC5, \hB9, \h4D, \h44, \h08, \h86, \hE7,
    \hA1, \h1D, \hAA, \hED, \h06, \h70, \hB2, \hD2, \h41, \h7B, \hA0, \h11, \h31, \hC2, \h27, \h90,
    \h20, \hF6, \h60, \hFF, \h96, \h5C, \hB1, \hAB, \h9E, \h9C, \h52, \h1B, \h5F, \h93, \h0A, \hEF,
    \h91, \h85, \h49, \hEE, \h2D, \h4F, \h8F, \h3B, \h47, \h87, \h6D, \h46, \hD6, \h3E, \h69, \h64,
    \h2A, \hCE, \hCB, \h2F, \hFC, \h97, \h05, \h7A, \hAC, \h7F, \hD5, \h1A, \h4B, \h0E, \hA7, \h5A,
    \h28, \h14, \h3F, \h29, \h88, \h3C, \h4C, \h02, \hB8, \hDA, \hB0, \h17, \h55, \h1F, \h8A, \h7D,
    \h57, \hC7, \h8D, \h74, \hB7, \hC4, \h9F, \h72, \h7E, \h15, \h22, \h12, \h58, \h07, \h99, \h34,
    \h6E, \h50, \hDE, \h68, \h65, \hBC, \hDB, \hF8, \hC8, \hA8, \h2B, \h40, \hDC, \hFE, \h32, \hA4,
    \hCA, \h10, \h21, \hF0, \hD3, \h5D, \h0F, \h00, \h6F, \h9D, \h36, \h42, \h4A, \h5E, \hC1, \hE0
>>

P1 == <<
    \h75, \hF3, \hC6, \hF4, \hDB, \h7B, \hFB, \hC8, \h4A, \hD3, \hE6, \h6B, \h45, \h7D, \hE8, \h4B,
    \hD6, \h32, \hD8, \hFD, \h37, \h71, \hF1, \hE1, \h30, \h0F, \hF8, \h1B, \h87, \hFA, \h06, \h3F,
    \h5E, \hBA, \hAE, \h5B, \h8A, \h00, \hBC, \h9D, \h6D, \hC1, \hB1, \h0E, \h80, \h5D, \hD2, \hD5,
    \hA0, \h84, \h07, \h14, \hB5, \h90, \h2C, \hA3, \hB2, \h73, \h4C, \h54, \h92, \h74, \h36, \h51,
    \h38, \hB0, \hBD, \h5A, \hFC, \h60, \h62, \h96, \h6C, \h42, \hF7, \h10, \h7C, \h28, \h27, \h8C,
    \h13, \h95, \h9C, \hC7, \h24, \h46, \h3B, \h70, \hCA, \hE3, \h85, \hCB, \h11, \hD0, \h93, \hB8,
    \hA6, \h83, \h20, \hFF, \h9F, \h77, \hC3, \hCC, \h03, \h6F, \h08, \hBF, \h40, \hE7, \h2B, \hE2,
    \h79, \h0C, \hAA, \h82, \h41, \h3A, \hEA, \hB9, \hE4, \h9A, \hA4, \h97, \h7E, \hDA, \h7A, \h17,
    \h66, \h94, \hA1, \h1D, \h3D, \hF0, \hDE, \hB3, \h0B, \h72, \hA7, \h1C, \hEF, \hD1, \h53, \h3E,
    \h8F, \h33, \h26, \h5F, \hEC, \h76, \h2A, \h49, \h81, \h88, \hEE, \h21, \hC4, \h1A, \hEB, \hD9,
    \hC5, \h39, \h99, \hCD, \hAD, \h31, \h8B, \h01, \h18, \h23, \hDD, \h1F, \h4E, \h2D, \hF9, \h48,
    \h4F, \hF2, \h65, \h8E, \h78, \h5C, \h58, \h19, \h8D, \hE5, \h98, \h57, \h67, \h7F, \h05, \h64,
    \hAF, \h63, \hB6, \hFE, \hF5, \hB7, \h3C, \hA5, \hCE, \hE9, \h68, \h44, \hE0, \h4D, \h43, \h69,
    \h29, \h2E, \hAC, \h15, \h59, \hA8, \h0A, \h9E, \h6E, \h47, \hDF, \h34, \h35, \h6A, \hCF, \hDC,
    \h22, \hC9, \hC0, \h9B, \h89, \hD4, \hED, \hAB, \h12, \hA2, \h0D, \h52, \hBB, \h02, \h2F, \hA9,
    \hD7, \h61, \h1E, \hB4, \h50, \h04, \hF6, \hC2, \h16, \h25, \h86, \h56, \h55, \h09, \hBE, \h91
>>

MULT_5B == <<
    \h00, \h5B, \hB6, \hED, \h05, \h5E, \hB3, \hE8, \h0A, \h51, \hBC, \hE7, \h0F, \h54, \hB9, \hE2,
    \h14, \h4F, \hA2, \hF9, \h11, \h4A, \hA7, \hFC, \h1E, \h45, \hA8, \hF3, \h1B, \h40, \hAD, \hF6,
    \h28, \h73, \h9E, \hC5, \h2D, \h76, \h9B, \hC0, \h22, \h79, \h94, \hCF, \h27, \h7C, \h91, \hCA,
    \h3C, \h67, \h8A, \hD1, \h39, \h62, \h8F, \hD4, \h36, \h6D, \h80, \hDB, \h33, \h68, \h85, \hDE,
    \h50, \h0B, \hE6, \hBD, \h55, \h0E, \hE3, \hB8, \h5A, \h01, \hEC, \hB7, \h5F, \h04, \hE9, \hB2,
    \h44, \h1F, \hF2, \hA9, \h41, \h1A, \hF7, \hAC, \h4E, \h15, \hF8, \hA3, \h4B, \h10, \hFD, \hA6,
    \h78, \h23, \hCE, \h95, \h7D, \h26, \hCB, \h90, \h72, \h29, \hC4, \h9F, \h77, \h2C, \hC1, \h9A,
    \h6C, \h37, \hDA, \h81, \h69, \h32, \hDF, \h84, \h66, \h3D, \hD0, \h8B, \h63, \h38, \hD5, \h8E,
    \hA0, \hFB, \h16, \h4D, \hA5, \hFE, \h13, \h48, \hAA, \hF1, \h1C, \h47, \hAF, \hF4, \h19, \h42,
    \hB4, \hEF, \h02, \h59, \hB1, \hEA, \h07, \h5C, \hBE, \hE5, \h08, \h53, \hBB, \hE0, \h0D, \h56,
    \h88, \hD3, \h3E, \h65, \h8D, \hD6, \h3B, \h60, \h82, \hD9, \h34, \h6F, \h87, \hDC, \h31, \h6A,
    \h9C, \hC7, \h2A, \h71, \h99, \hC2, \h2F, \h74, \h96, \hCD, \h20, \h7B, \h93, \hC8, \h25, \h7E,
    \hF0, \hAB, \h46, \h1D, \hF5, \hAE, \h43, \h18, \hFA, \hA1, \h4C, \h17, \hFF, \hA4, \h49, \h12,
    \hE4, \hBF, \h52, \h09, \hE1, \hBA, \h57, \h0C, \hEE, \hB5, \h58, \h03, \hEB, \hB0, \h5D, \h06,
    \hD8, \h83, \h6E, \h35, \hDD, \h86, \h6B, \h30, \hD2, \h89, \h64, \h3F, \hD7, \h8C, \h61, \h3A,
    \hCC, \h97, \h7A, \h21, \hC9, \h92, \h7F, \h24, \hC6, \h9D, \h70, \h2B, \hC3, \h98, \h75, \h2E
>>

MULT_EF == <<
    \h00, \hEF, \hB7, \h58, \h07, \hE8, \hB0, \h5F, \h0E, \hE1, \hB9, \h56, \h09, \hE6, \hBE, \h51,
    \h1C, \hF3, \hAB, \h44, \h1B, \hF4, \hAC, \h43, \h12, \hFD, \hA5, \h4A, \h15, \hFA, \hA2, \h4D,
    \h38, \hD7, \h8F, \h60, \h3F, \hD0, \h88, \h67, \h36, \hD9, \h81, \h6E, \h31, \hDE, \h86, \h69,
    \h24, \hCB, \h93, \h7C, \h23, \hCC, \h94, \h7B, \h2A, \hC5, \h9D, \h72, \h2D, \hC2, \h9A, \h75,
    \h70, \h9F, \hC7, \h28, \h77, \h98, \hC0, \h2F, \h7E, \h91, \hC9, \h26, \h79, \h96, \hCE, \h21,
    \h6C, \h83, \hDB, \h34, \h6B, \h84, \hDC, \h33, \h62, \h8D, \hD5, \h3A, \h65, \h8A, \hD2, \h3D,
    \h48, \hA7, \hFF, \h10, \h4F, \hA0, \hF8, \h17, \h46, \hA9, \hF1, \h1E, \h41, \hAE, \hF6, \h19,
    \h54, \hBB, \hE3, \h0C, \h53, \hBC, \hE4, \h0B, \h5A, \hB5, \hED, \h02, \h5D, \hB2, \hEA, \h05,
    \hE0, \h0F, \h57, \hB8, \hE7, \h08, \h50, \hBF, \hEE, \h01, \h59, \hB6, \hE9, \h06, \h5E, \hB1,
    \hFC, \h13, \h4B, \hA4, \hFB, \h14, \h4C, \hA3, \hF2, \h1D, \h45, \hAA, \hF5, \h1A, \h42, \hAD,
    \hD8, \h37, \h6F, \h80, \hDF, \h30, \h68, \h87, \hD6, \h39, \h61, \h8E, \hD1, \h3E, \h66, \h89,
    \hC4, \h2B, \h73, \h9C, \hC3, \h2C, \h74, \h9B, \hCA, \h25, \h7D, \h92, \hCD, \h22, \h7A, \h95,
    \h90, \h7F, \h27, \hC8, \h97, \h78, \h20, \hCF, \h9E, \h71, \h29, \hC6, \h99, \h76, \h2E, \hC1,
    \h8C, \h63, \h3B, \hD4, \h8B, \h64, \h3C, \hD3, \h82, \h6D, \h35, \hDA, \h85, \h6A, \h32, \hDD,
    \hA8, \h47, \h1F, \hF0, \hAF, \h40, \h18, \hF7, \hA6, \h49, \h11, \hFE, \hA1, \h4E, \h16, \hF9,
    \hB4, \h5B, \h03, \hEC, \hB3, \h5C, \h04, \hEB, \hBA, \h55, \h0D, \hE2, \hBD, \h52, \h0A, \hE5
>>

\* Key::len_u64
len_u64(key) ==
    CASE Len(key) = 16 -> 2
      [] Len(key) = 24 -> 3
      [] Len(key) = 32 -> 4

mult_5b(x) == MULT_5B[x + 1]
mult_ef(x) == MULT_EF[x + 1]
p0(x) == P0[x + 1]
p1(x) == P1[x + 1]

\* a ^ b on two u16
u16_xor(a, b) ==
    (a + b) - (2 * ((And8[a \div 256][b \div 256] * 256) + And8[a % 256][b % 256]))

RS_GF_GEN == <<0, \h14D>>

\* one unrolled turn of gf_mult: a >>= 1; b[1] = ...; prod ^= b[a & 1]
gf_mult_turn(st) ==
    LET a == st.a \div 2
        b1 == u16_xor((st.b1 * 2) % 65536, RS_GF_GEN[And8[(st.b1 \div 128) % 256][1] + 1])
    IN  [n |-> st.n + 1, a |-> a, b1 |-> b1,
         prod |-> u16_xor(st.prod, <<0, b1>>[And8[a][1] + 1])]

RECURSIVE gf_mult_turns(_)
gf_mult_turns(st) == IF st.n >= 8 THEN st ELSE gf_mult_turns(gf_mult_turn(st))

gf_mult(a, b) ==
    gf_mult_turns([n |-> 0, a |-> a, b1 |-> b,
                   prod |-> u16_xor(0, <<0, b>>[And8[a][1] + 1])]).prod % 256

\* for j in st.j..8 { res[i] ^= gf_mult(RS[i][j], v[j]) }
RECURSIVE mult_rs_row(_, _, _)
mult_rs_row(i, v, st) ==
    IF st.j >= 8 THEN st.res
    ELSE mult_rs_row(i, v,
            [j |-> st.j + 1, res |-> xor8(st.res, gf_mult(RS[i + 1][st.j + 1], v[st.j + 1]))])

mult_rs_matrix(v) == Built([k \in 1..4 |-> mult_rs_row(k - 1, v, [j |-> 0, res |-> 0])])

\* b after the first block of h: if l.len() == 4
tf_h_k3(b, l) ==
    IF Len(l) = 4
    THEN <<xor8(p1(b[1]), to_le_bytes(l[4])[1]), xor8(p0(b[2]), to_le_bytes(l[4])[2]),
           xor8(p0(b[3]), to_le_bytes(l[4])[3]), xor8(p1(b[4]), to_le_bytes(l[4])[4])>>
    ELSE b

\* b after the second block of h: if l.len() >= 3
tf_h_k2(b, l) ==
    IF Len(l) >= 3
    THEN <<xor8(p1(b[1]), to_le_bytes(l[3])[1]), xor8(p1(b[2]), to_le_bytes(l[3])[2]),
           xor8(p0(b[3]), to_le_bytes(l[3])[3]), xor8(p0(b[4]), to_le_bytes(l[3])[4])>>
    ELSE b

\* b after the unconditional block of h
tf_h_k1_k0(b, k0, k1) ==
    <<p1(xor8(p0(xor8(p0(b[1]), k1[1])), k0[1])),
      p0(xor8(p0(xor8(p1(b[2]), k1[2])), k0[2])),
      p1(xor8(p1(xor8(p0(b[3]), k1[3])), k0[3])),
      p0(xor8(p1(xor8(p1(b[4]), k1[4])), k0[4]))>>

\* the MDS matrix multiplication that ends h
tf_mds(b) ==
    from_le_bytes(
        <<xor8(xor8(xor8(b[1], mult_ef(b[2])), mult_5b(b[3])), mult_5b(b[4])),
          xor8(xor8(xor8(mult_5b(b[1]), mult_ef(b[2])), mult_ef(b[3])), b[4]),
          xor8(xor8(xor8(mult_ef(b[1]), mult_5b(b[2])), b[3]), mult_ef(b[4])),
          xor8(xor8(xor8(mult_ef(b[1]), b[2]), mult_ef(b[3])), mult_5b(b[4]))>>)

tf_h(x, l) ==
    tf_mds(tf_h_k1_k0(tf_h_k2(tf_h_k3(to_le_bytes(x), l), l),
                      to_le_bytes(l[1]), to_le_bytes(l[2])))

tf_g(x, s) == tf_h(x, s)

SK_STEP == U32(\h0202, \h0202)
SK_BUMP == U32(\h0101, \h0101)
SK_ROTL == 9

\* i as u32 * x for a small i (the product does not overflow in expand_key)
u32_times(i, x) ==
    <<((i * x[1]) + ((i * x[2]) \div 65536)) % 65536, (i * x[2]) % 65536>>

\* keys_even (odd = 0) or keys_odd (odd = 1) of expand_key, cut to len_u64 words
tf_key_words(key, odd) ==
    Built([k \in 1..len_u64(key) |->
              from_le_bytes(<<key[(8 * (k - 1)) + (4 * odd) + 1], key[(8 * (k - 1)) + (4 * odd) + 2],
                              key[(8 * (k - 1)) + (4 * odd) + 3], key[(8 * (k - 1)) + (4 * odd) + 4]>>)])

\* chunk i kept in slot i, not reversed
tf_sbox_keys_forward(key) ==
    Built([k \in 1..4 |->
              IF k <= len_u64(key)
              THEN from_le_bytes(mult_rs_matrix(SubSeq(key, (8 * (k - 1)) + 1, (8 * (k - 1)) + 8)))
              ELSE U32Zero])

\* sbox_keys of expand_key: chunk i goes to slot len_u64 - i - 1, the rest stay 0
tf_sbox_keys(key) ==
    Built([k \in 1..4 |->
              IF k <= len_u64(key)
              THEN from_le_bytes(mult_rs_matrix(
                       SubSeq(key, (8 * (len_u64(key) - k)) + 1, (8 * (len_u64(key) - k)) + 8)))
              ELSE U32Zero])

\* a and b of the subkey loop of expand_key
tf_subkey_a(key, i) == tf_h(u32_times(i, SK_STEP), tf_key_words(key, 0))
tf_subkey_b(key, i) ==
    rotate_left(tf_h(wrapping_add(u32_times(i, SK_STEP), SK_BUMP), tf_key_words(key, 1)), 8)

\* subkeys[2 * i] and subkeys[2 * i + 1]
tf_subkey_pair(a, b) ==
    <<wrapping_add(a, b), rotate_left(wrapping_add(a, wrapping_add(b, b)), SK_ROTL)>>

tf_subkeys(key) ==
    Built([k \in 1..(NUM_WHITENING_SUBKEYS + (2 * NUM_ROUNDS)) |->
              tf_subkey_pair(tf_subkey_a(key, (k - 1) \div 2),
                             tf_subkey_b(key, (k - 1) \div 2))[((k - 1) % 2) + 1]])

expand_key(key) ==
    [len_u64 |-> len_u64(key), sbox_keys |-> tf_sbox_keys(key), subkeys |-> tf_subkeys(key)]

\* KeySchedule::sbox_keys
sbox_keys(schedule) == SubSeq(schedule.sbox_keys, 1, schedule.len_u64)

\* the whitening with the first 4 keys
tf_whiten_in(plaintext, schedule) ==
    Built([k \in 1..4 |->
              u32_xor(from_le_bytes(<<plaintext[(4 * (k - 1)) + 1], plaintext[(4 * (k - 1)) + 2],
                                      plaintext[(4 * (k - 1)) + 3], plaintext[(4 * (k - 1)) + 4]>>),
                      schedule.subkeys[k])])

\* x[2] and x[3] at the end of round r, from t0 and t1
tf_pht(x, t0, t1, schedule, r) ==
    <<rotate_right(
          u32_xor(x[3], wrapping_add(wrapping_add(t0, t1),
                                     schedule.subkeys[(NUM_WHITENING_SUBKEYS + (2 * r)) + 1])), 1),
      u32_xor(rotate_left(x[4], 1),
              wrapping_add(wrapping_add(t0, shl_lt16(t1, 1)),
                           schedule.subkeys[(NUM_WHITENING_SUBKEYS + (2 * r) + 1) + 1]))>>

\* x[2] and x[3] at the end of round r
tf_round_23(x, schedule, r) ==
    tf_pht(x, tf_g(x[1], sbox_keys(schedule)), tf_g(rotate_left(x[2], 8), sbox_keys(schedule)),
           schedule, r)

\* without the swap of the words for the next round
tf_round_unswapped(x, schedule, r) ==
    <<x[1], x[2], tf_round_23(x, schedule, r)[1], tf_round_23(x, schedule, r)[2]>>

\* the body of the loop for r in 0..NUM_ROUNDS
tf_round(x, schedule, r) ==
    IF r + 1 < NUM_ROUNDS
    THEN <<tf_round_23(x, schedule, r)[1], tf_round_23(x, schedule, r)[2], x[1], x[2]>>
    ELSE <<x[1], x[2], tf_round_23(x, schedule, r)[1], tf_round_23(x, schedule, r)[2]>>

\* the output whitening with the last 4 words of subkeys
tf_whiten_out_last_subkeys(x, schedule) ==
    Built([k \in 1..16 |->
              to_le_bytes(u32_xor(x[((k - 1) \div 4) + 1],
                                  schedule.subkeys[(36 + ((k - 1) \div 4)) + 1]))[((k - 1) % 4) + 1]])

\* the whitening with the second 4 keys, and the ciphertext bytes
tf_whiten_out(x, schedule) ==
    Built([k \in 1..16 |->
              to_le_bytes(u32_xor(x[((k - 1) \div 4) + 1],
                                  schedule.subkeys[(4 + ((k - 1) \div 4)) + 1]))[((k - 1) % 4) + 1]])

RECURSIVE tf_rounds(_, _)
tf_rounds(schedule, st) ==
    IF st.r >= NUM_ROUNDS THEN st.x
    ELSE tf_rounds(schedule, [r |-> st.r + 1, x |-> tf_round(st.x, schedule, st.r)])

tf_encrypt_with(plaintext, schedule) ==
    tf_whiten_out(tf_rounds(schedule, [r |-> 0, x |-> tf_whiten_in(plaintext, schedule)]), schedule)

tf_encrypt(plaintext, key) == tf_encrypt_with(plaintext, expand_key(key))

(***************************************************************************)
(* Inputs.  The callers' blocks, keys and messages are drawn from these    *)
(* sets: the inputs of the crate's own tests, and filler bytes.            *)
(***************************************************************************)

\* byte i (0-based) of the filler string with the given seed
PatternByte(seed, i) ==
    (((seed + 1) * 97) + (i * 61) + (seed * i * 7) + (((i * i) % 13) * 19)) % 256

PatternBytes(seed, n) == Built([i \in 1..n |-> PatternByte(seed, i - 1)])

\* a part of the model that is not running in the specification at hand
Idle == [pc |-> "idle"]


\* the inputs and digests asserted by tests::test_md5
MD5_TESTS == <<
    \* ""
    [input |-> <<>>,
     digest |-> <<\hD4, \h1D, \h8C, \hD9, \h8F, \h00, \hB2, \h04, \hE9, \h80, \h09, \h98, \hEC, \hF8, \h42, \h7E>>],
    \* "a"
    [input |-> <<\h61>>,
     digest |-> <<\h0C, \hC1, \h75, \hB9, \hC0, \hF1, \hB6, \hA8, \h31, \hC3, \h99, \hE2, \h69, \h77, \h26, \h61>>],
    \* "abc"
    [input |-> <<\h61, \h62, \h63>>,
     digest |-> <<\h90, \h01, \h50, \h98, \h3C, \hD2, \h4F, \hB0, \hD6, \h96, \h3F, \h7D, \h28, \hE1, \h7F, \h72>>],
    \* "message digest"
    [input |-> <<\h6D, \h65, \h73, \h73, \h61, \h67, \h65, \h20, \h64, \h69, \h67, \h65, \h73, \h74>>,
     digest |-> <<\hF9, \h6B, \h69, \h7D, \h7C, \hB7, \h93, \h8D, \h52, \h5A, \h2F, \h31, \hAA, \hF1, \h61, \hD0>>],
    \* "abcdefghijklmnopqrstuvwxyz"
    [input |-> <<\h61, \h62, \h63, \h64, \h65, \h66, \h67, \h68, \h69, \h6A, \h6B, \h6C, \h6D, \h6E, \h6F, \h70,
                 \h71, \h72, \h73, \h74, \h75, \h76, \h77, \h78, \h79, \h7A>>,
     digest |-> <<\hC3, \hFC, \hD3, \hD7, \h61, \h92, \hE4, \h00, \h7D, \hFB, \h49, \h6C, \hCA, \h67, \hE1, \h3B>>],
    \* "ABCDEFGHIJKLMNOPQRSTUVWXYZabcdefghijklmnopqrstuvwxyz0123456789"
    [input |-> <<\h41, \h42, \h43, \h44, \h45, \h46, \h47, \h48, \h49, \h4A, \h4B, \h4C, \h4D, \h4E, \h4F, \h50,
                 \h51, \h52, \h53, \h54, \h55, \h56, \h57, \h58, \h59, \h5A, \h61, \h62, \h63, \h64, \h65, \h66,
                 \h67, \h68, \h69, \h6A, \h6B, \h6C, \h6D, \h6E, \h6F, \h70, \h71, \h72, \h73, \h74, \h75, \h76,
                 \h77, \h78, \h79, \h7A, \h30, \h31, \h32, \h33, \h34, \h35, \h36, \h37, \h38, \h39>>,
     digest |-> <<\hD1, \h74, \hAB, \h98, \hD2, \h77, \hD9, \hF5, \hA5, \h61, \h1C, \h2C, \h9F, \h41, \h9D, \h9F>>],
    \* "12345678901234567890123456789012345678901234567890123456789012345678901234567890"
    [input |-> <<\h31, \h32, \h33, \h34, \h35, \h36, \h37, \h38, \h39, \h30, \h31, \h32, \h33, \h34, \h35, \h36,
                 \h37, \h38, \h39, \h30, \h31, \h32, \h33, \h34, \h35, \h36, \h37, \h38, \h39, \h30, \h31, \h32,
                 \h33, \h34, \h35, \h36, \h37, \h38, \h39, \h30, \h31, \h32, \h33, \h34, \h35, \h36, \h37, \h38,
                 \h39, \h30, \h31, \h32, \h33, \h34, \h35, \h36, \h37, \h38, \h39, \h30, \h31, \h32, \h33, \h34,
                 \h35, \h36, \h37, \h38, \h39, \h30, \h31, \h32, \h33, \h34, \h35, \h36, \h37, \h38, \h39, \h30>>,
     digest |-> <<\h57, \hED, \hF4, \hA2, \h2B, \hE3, \hC9, \h55, \hAC, \h49, \hDA, \h2E, \h21, \h07, \hB6, \h7A>>]
>>

\* the inputs and digests asserted by tests::test_sha1
SHA1_TESTS == <<
    \* "abc"
    [input |-> <<\h61, \h62, \h63>>,
     digest |-> <<\hA9, \h99, \h3E, \h36, \h47, \h06, \h81, \h6A, \hBA, \h3E, \h25, \h71, \h78, \h50, \hC2, \h6C,
                  \h9C, \hD0, \hD8, \h9D>>],
    \* "abcdbcdecdefdefgefghfghighijhijkijkljklmklmnlmnomnopnopq"
    [input |-> <<\h61, \h62, \h63, \h64, \h62, \h63, \h64, \h65, \h63, \h64, \h65, \h66, \h64, \h65, \h66, \h67,
                 \h65, \h66, \h67, \h68, \h66, \h67, \h68, \h69, \h67, \h68, \h69, \h6A, \h68, \h69, \h6A, \h6B,
                 \h69, \h6A, \h6B, \h6C, \h6A, \h6B, \h6C, \h6D, \h6B, \h6C, \h6D, \h6E, \h6C, \h6D, \h6E, \h6F,
                 \h6D, \h6E, \h6F, \h70, \h6E, \h6F, \h70, \h71>>,
     digest |-> <<\h84, \h98, \h3E, \h44, \h1C, \h3B, \hD2, \h6E, \hBA, \hAE, \h4A, \hA1, \hF9, \h51, \h29, \hE5,
                  \hE5, \h46, \h70, \hF1>>]
>>


\* tests::test_encrypt_128 and tests::test_key_expansion_128: the FIPS-197 example
AesTestPlaintext == <<\h32, \h43, \hF6, \hA8, \h88, \h5A, \h30, \h8D, \h31, \h31, \h98, \hA2, \hE0, \h37, \h07, \h34>>
AesTestKey == <<\h2B, \h7E, \h15, \h16, \h28, \hAE, \hD2, \hA6, \hAB, \hF7, \h15, \h88, \h09, \hCF, \h4F, \h3C>>
AesTestCiphertext == <<\h39, \h25, \h84, \h1D, \h02, \hDC, \h09, \hFB, \hDC, \h11, \h85, \h97, \h19, \h6A, \h0B, \h32>>

EXPECTED_ROUND_KEYS_BE == <<
    U32(\h2B7E, \h1516), U32(\h28AE, \hD2A6), U32(\hABF7, \h1588), U32(\h09CF, \h4F3C),
    U32(\hA0FA, \hFE17), U32(\h8854, \h2CB1), U32(\h23A3, \h3939), U32(\h2A6C, \h7605),
    U32(\hF2C2, \h95F2), U32(\h7A96, \hB943), U32(\h5935, \h807A), U32(\h7359, \hF67F),
    U32(\h3D80, \h477D), U32(\h4716, \hFE3E), U32(\h1E23, \h7E44), U32(\h6D7A, \h883B),
    U32(\hEF44, \hA541), U32(\hA852, \h5B7F), U32(\hB671, \h253B), U32(\hDB0B, \hAD00),
    U32(\hD4D1, \hC6F8), U32(\h7C83, \h9D87), U32(\hCAF2, \hB8BC), U32(\h11F9, \h15BC),
    U32(\h6D88, \hA37A), U32(\h110B, \h3EFD), U32(\hDBF9, \h8641), U32(\hCA00, \h93FD),
    U32(\h4E54, \hF70E), U32(\h5F5F, \hC9F3), U32(\h84A6, \h4FB2), U32(\h4EA6, \hDC4F),
    U32(\hEAD2, \h7321), U32(\hB58D, \hBAD2), U32(\h312B, \hF560), U32(\h7F8D, \h292F),
    U32(\hAC77, \h66F3), U32(\h19FA, \hDC21), U32(\h28D1, \h2941), U32(\h575C, \h006E),
    U32(\hD014, \hF9A8), U32(\hC9EE, \h2589), U32(\hE13F, \h0CC8), U32(\hB663, \h0CA6)
>>

\* x.swap_bytes()
swap_bytes(x) == <<((x[2] % 256) * 256) + (x[2] \div 256), ((x[1] % 256) * 256) + (x[1] \div 256)>>

\* tests::test_key_expansion_128: expected_round_keys
AesExpectedRoundKeys ==
    Built([k \in 1..Len(EXPECTED_ROUND_KEYS_BE) |-> swap_bytes(EXPECTED_ROUND_KEYS_BE[k])])


\* tests::test_mix_columns: state and expected
AesMixTestState == <<\hD4, \hBF, \h5D, \h30, \hE0, \hB4, \h52, \hAE, \hB8, \h41, \h11, \hF1, \h1E, \h27, \h98, \hE5>>
AesMixTestExpected == <<\h04, \h66, \h81, \hE5, \hE0, \hCB, \h19, \h9A, \h48, \hF8, \hD3, \h7A, \h28, \h06, \h26, \h4C>>

\* tests::test_shift_rows: state and expected
AesShiftTestState == <<1, 1, 1, 1, 2, 2, 2, 2, 3, 3, 3, 3, 4, 4, 4, 4>>
AesShiftTestExpected == <<1, 2, 3, 4, 2, 3, 4, 1, 3, 4, 1, 2, 4, 1, 2, 3>>

\* tests::test_encrypt_128 / _192 / _256: the key and the expected ciphertext
\* of the all-zero block
TF_TESTS == <<
    [key |-> Zeros(16),
     ciphertext |-> <<\h9F, \h58, \h9F, \h5C, \hF6, \h12, \h2C, \h32, \hB6, \hBF, \hEC, \h2F, \h2A, \hE8, \hC3, \h5A>>],
    [key |-> <<\h01, \h23, \h45, \h67, \h89, \hAB, \hCD, \hEF, \hFE, \hDC, \hBA, \h98, \h76, \h54, \h32, \h10, \h00, \h11, \h22, \h33, \h44, \h55, \h66, \h77>>,
     ciphertext |-> <<\hCF, \hD1, \hD2, \hE5, \hA9, \hBE, \h9C, \hDF, \h50, \h1F, \h13, \hB8, \h92, \hBD, \h22, \h48>>],
    [key |-> <<\h01, \h23, \h45, \h67, \h89, \hAB, \hCD, \hEF, \hFE, \hDC, \hBA, \h98, \h76, \h54, \h32, \h10, \h00, \h11, \h22, \h33, \h44, \h55, \h66, \h77, \h88, \h99, \hAA, \hBB, \hCC, \hDD, \hEE, \hFF>>,
     ciphertext |-> <<\h37, \h52, \h7B, \hE0, \h05, \h23, \h34, \hB8, \h9F, \h0C, \hFC, \hCA, \hE8, \h7C, \hFA, \h20>>]
>>


\* tests::test_expand_key_128_key / _192_key / _256_key: the key (that of
\* TF_TESTS) and the expected len_u64, sbox_keys and subkeys of its schedule
TF_EXPAND_TESTS == <<
    [key |-> TF_TESTS[1].key, len_u64 |-> 2,
     sbox_keys |-> <<U32Zero, U32Zero, U32Zero, U32Zero>>,
     subkeys |->
       <<U32(\h52C5, \h4DDE), U32(\h11F0, \h626D), U32(\h7CAC, \h9D4A), U32(\h4D1B, \h4AAA),
         U32(\hB7B8, \h3A10), U32(\h1E7D, \h0BEB), U32(\hEE9C, \h341F), U32(\hCFE1, \h4BE4),
         U32(\hF98F, \hFEF9), U32(\h9C5B, \h3C17), U32(\h15A4, \h8310), U32(\h342A, \h4D81),
         U32(\h424D, \h89FE), U32(\hC147, \h24A7), U32(\h311B, \h834C), U32(\hFDE8, \h7320),
         U32(\h3302, \h778F), U32(\h26CD, \h67B4), U32(\h7A6C, \h6362), U32(\hC2BA, \hF60E),
         U32(\h3411, \hB994), U32(\hD972, \hC87F), U32(\h84AD, \hB1EA), U32(\hA7DE, \hE434),
         U32(\h54D2, \h960F), U32(\hA2F7, \hCAA8), U32(\hA6B8, \hFF8C), U32(\h8014, \hC425),
         U32(\h6A74, \h8D1C), U32(\hEDBA, \hF720), U32(\h928E, \hF78C), U32(\h0338, \hEE13),
         U32(\h9949, \hD6BE), U32(\hC831, \h4176), U32(\h07C0, \h7D68), U32(\hECAE, \h7EA7),
         U32(\h1FE7, \h1844), U32(\h85C0, \h5C89), U32(\hF298, \h311E), U32(\h696E, \hA672)>>],
    [key |-> TF_TESTS[2].key, len_u64 |-> 3,
     sbox_keys |-> <<U32(\h4566, \h1061), U32(\hB255, \hBC4B), U32(\hB89F, \hF6F2), U32Zero>>,
     subkeys |->
       <<U32(\h3839, \h4A24), U32(\hC36D, \h1175), U32(\hE802, \h528F), U32(\h219B, \hFEB4),
         U32(\hB914, \h1AB4), U32(\hBD3E, \h70CD), U32(\hAF60, \h9383), U32(\hFD36, \h908A),
         U32(\h03EF, \hB931), U32(\h1D2E, \hE7EC), U32(\hA748, \h9D55), U32(\h6E44, \hB6E8),
         U32(\h714A, \hD667), U32(\h653A, \hD51F), U32(\hB631, \h5B66), U32(\hB27C, \h05AF),
         U32(\hA06C, \h8140), U32(\h9853, \hD419), U32(\h4016, \hE346), U32(\h8D1C, \h0DD4),
         U32(\hF054, \h80BE), U32(\hB6AF, \h816F), U32(\h2D7D, \hC789), U32(\h45B7, \hBD3A),
         U32(\h57F8, \hA163), U32(\h2BEF, \hDA69), U32(\h26AE, \h7271), U32(\hC290, \h0D79),
         U32(\hED32, \h3794), U32(\h3D3F, \hFD80), U32(\h5DE6, \h8E49), U32(\h9C3D, \h2478),
         U32(\hDF32, \h6FE3), U32(\h5911, \hF70D), U32(\hC229, \hF13B), U32(\hB136, \h4772),
         U32(\h4235, \h364D), U32(\h0CEC, \h363A), U32(\h57C8, \hDD1F), U32(\h6A1A, \hD61E)>>],
    [key |-> TF_TESTS[3].key, len_u64 |-> 4,
     sbox_keys |-> <<U32(\h8E44, \h47F7), U32(\h4566, \h1061), U32(\hB255, \hBC4B), U32(\hB89F, \hF6F2)>>,
     subkeys |->
       <<U32(\h5EC7, \h69BF), U32(\h44D1, \h3C60), U32(\h76CD, \h39B1), U32(\h1675, \h0474),
         U32(\h349C, \h294B), U32(\hEC21, \hF6D6), U32(\h4FBD, \h10B4), U32(\h578D, \hA0ED),
         U32(\hC347, \h9695), U32(\h9B69, \h58FB), U32(\h6A7F, \hBC4E), U32(\h0BF1, \h830B),
         U32(\h61B5, \hE0FB), U32(\hD78D, \h9730), U32(\h7C6C, \hF0C4), U32(\h2F91, \h09C8),
         U32(\hE69E, \hA8D1), U32(\hED99, \hBDFF), U32(\h35DC, \h0BBD), U32(\hA03E, \h5018),
         U32(\hFB18, \hEA0B), U32(\h38BD, \h43D3), U32(\h7619, \h1781), U32(\h37A9, \hA0D3),
         U32(\h7242, \h7BEA), U32(\h911C, \hC0B8), U32(\hF168, \h9449), U32(\h7100, \h9CA9),
         U32(\hB636, \h3E89), U32(\h494D, \h9855), U32(\h590B, \hBC63), U32(\hF95A, \h28B5),
         U32(\hFB72, \hB4E1), U32(\h2A43, \h505C), U32(\hBFD3, \h4176), U32(\h5C13, \h3D12),
         U32(\h3A92, \h47F7), U32(\h9A33, \h31DD), U32(\hEE75, \h15E6), U32(\hF0D5, \h4DCD)>>]
>>
(***************************************************************************)
(* DES callers: encrypt then decrypt under a key, and the primitive des    *)
(* applied with a sequence of round keys and then with it reversed.        *)
(***************************************************************************)

MaxDesBlockSeed == 3
MaxDesKeySeed == 2
MaxDesRoundKeysSeed == 1

\* tests::test_encrypt: hex("0000000000C0FFEE"), hex("000000000000F00D"),
\* hex("a271e9bac8862997"), each read by u64::from_le_bytes
DesTestPlaintext == u64_from_le_bytes(<<\h00, \h00, \h00, \h00, \h00, \hC0, \hFF, \hEE>>)
DesTestKey == u64_from_le_bytes(<<\h00, \h00, \h00, \h00, \h00, \h00, \hF0, \h0D>>)
DesTestCiphertext == u64_from_le_bytes(<<\hA2, \h71, \hE9, \hBA, \hC8, \h86, \h29, \h97>>)

DesBlocks ==
    {DesTestPlaintext}
        \cup {u64_from_le_bytes(PatternBytes(sd, 8)) : sd \in 0..MaxDesBlockSeed}

DesKeys ==
    {DesTestKey}
        \cup {u64_from_le_bytes(PatternBytes(40 + sd, 8)) : sd \in 0..MaxDesKeySeed}

\* sequences of 16 round keys, each below 2^48, derived from no key
DesRoundKeySeqs ==
    {Built([r \in 1..16 |-> bv_low(u64_from_le_bytes(PatternBytes(80 + (16 * sd) + r, 8)), 48)]) :
        sd \in 0..MaxDesRoundKeysSeed}

DesInit ==
    des_st \in [pc : {"start"}, block : DesBlocks, key : DesKeys,
                round_keys : DesRoundKeySeqs, ct : {<<>>}, out : {<<>>}]

DesOthersUnchanged == UNCHANGED <<md5_st, sha1_st, aes_st, tf_st, calls>>

DesEncrypt ==
    /\ des_st.pc = "start"
    /\ des_st' = [des_st EXCEPT !.pc = "encrypted",
                                !.ct = des_encrypt(des_st.block, des_st.key)]
    /\ DesOthersUnchanged

DesDecrypt ==
    /\ des_st.pc = "encrypted"
    /\ des_st' = [des_st EXCEPT !.pc = "decrypted",
                                !.out = des_decrypt(des_st.ct, des_st.key)]
    /\ DesOthersUnchanged

DesApply ==
    /\ des_st.pc = "start"
    /\ des_st' = [des_st EXCEPT !.pc = "applied",
                                !.ct = des(des_st.block, des_st.round_keys)]
    /\ DesOthersUnchanged

DesApplyReversed ==
    /\ des_st.pc = "applied"
    /\ des_st' = [des_st EXCEPT !.pc = "unapplied",
                                !.out = des(des_st.ct, Reverse(des_st.round_keys))]
    /\ DesOthersUnchanged

InitDes ==
    /\ DesInit
    /\ md5_st = Idle /\ sha1_st = Idle /\ aes_st = Idle /\ tf_st = Idle
    /\ calls = <<>>

NextDes == DesEncrypt \/ DesDecrypt \/ DesApply \/ DesApplyReversed

SpecDes == InitDes /\ [][NextDes]_vars

(***************************************************************************)
(* MD5 callers: Md5::new(), at most MaxMd5Updates calls of update that     *)
(* hand over the message front to back, then digest().  cut records where   *)
(* the first piece ended.  digest is followed in two steps: the update     *)
(* with the padding, then the update with the saved length and the return. *)
(* fed is the padding handed to update, transforms the number of calls of  *)
(* transform so far.                                                       *)
(***************************************************************************)

MaxMd5Updates == 2
MaxMd5MsgLen == 128

Md5FillerLens == {55, 56, 63, 64, 65, 119, 120, MaxMd5MsgLen}

Md5Messages ==
    {MD5_TESTS[k].input : k \in 1..Len(MD5_TESTS)}
        \cup {PatternBytes(n % 5, n) : n \in Md5FillerLens}

\* the lengths of the next piece a caller may hand over when rem bytes are left
Md5Sizes(rem) == {n \in {0, 1, 8, 55, 56, 57, 63, 64, 65, rem} : n <= rem}

Md5Init ==
    md5_st \in [pc : {"updating"}, msg : Md5Messages, pos : {0}, calls : {0}, cut : {0},
                h : {md5_new}, len_bits : {<<>>}, fed : {<<>>}, transforms : {0}, out : {<<>>}]

Md5OthersUnchanged == UNCHANGED <<des_st, sha1_st, aes_st, tf_st, calls>>

\* update on a state that digest has consumed
Md5UpdateAfterDigest ==
    /\ md5_st.pc \in {"updating", "done"}
    /\ \E n \in Md5Sizes(Len(md5_st.msg)) :
          md5_st' = [md5_st EXCEPT !.h = md5_update(md5_st.h, SubSeq(md5_st.msg, 1, n)),
                                   !.pos = md5_st.pos + n,
                                   !.calls = md5_st.calls + 1]
    /\ Md5OthersUnchanged

\* state.update(input) with the next n bytes of the message
Md5Update ==
    /\ md5_st.pc = "updating"
    /\ md5_st.calls < MaxMd5Updates
    /\ \E n \in Md5Sizes(Len(md5_st.msg) - md5_st.pos) :
          md5_st' = [md5_st EXCEPT
                       !.h = md5_update(md5_st.h,
                                        SubSeq(md5_st.msg, md5_st.pos + 1, md5_st.pos + n)),
                       !.transforms = md5_st.transforms
                           + md5_update_transforms(md5_st.h,
                                 SubSeq(md5_st.msg, md5_st.pos + 1, md5_st.pos + n)),
                       !.pos = md5_st.pos + n,
                       !.cut = IF md5_st.calls = 0 THEN n ELSE md5_st.cut,
                       !.calls = md5_st.calls + 1]
    /\ Md5OthersUnchanged

\* state.digest() once the whole message has been handed over: the length
\* is saved and the padding handed to update
Md5Pad ==
    /\ md5_st.pc = "updating"
    /\ md5_st.pos = Len(md5_st.msg)
    /\ md5_st' = [md5_st EXCEPT
                    !.pc = "pad",
                    !.len_bits = md5_encode(md5_st.h.count),
                    !.fed = SubSeq(PADDING, 1, md5_pad_len(md5_st.h)),
                    !.transforms = md5_st.transforms
                        + md5_update_transforms(md5_st.h, SubSeq(PADDING, 1, md5_pad_len(md5_st.h))),
                    !.h = md5_update(md5_st.h, SubSeq(PADDING, 1, md5_pad_len(md5_st.h)))]
    /\ Md5OthersUnchanged

\* the rest of digest: the saved length is handed to update, and the state
\* words are returned as bytes
Md5Digest ==
    /\ md5_st.pc = "pad"
    /\ \E self \in {md5_update(md5_st.h, md5_st.len_bits)} :
          md5_st' = [md5_st EXCEPT
                       !.pc = "done",
                       !.transforms = md5_st.transforms
                           + md5_update_transforms(md5_st.h, md5_st.len_bits),
                       !.h = self,
                       !.out = md5_encode(self.state)]
    /\ Md5OthersUnchanged

InitMd5 ==
    /\ Md5Init
    /\ des_st = Idle
    /\ sha1_st = Idle
    /\ aes_st = Idle
    /\ tf_st = Idle
    /\ calls = <<>>

NextMd5 == Md5Update \/ Md5Pad \/ Md5Digest

SpecMd5 == InitMd5 /\ [][NextMd5]_vars

(***************************************************************************)
(* SHA-1 callers: Sha1::new(), any number of calls of update that hand     *)
(* over the message front to back, then digest().  calls is "none" before  *)
(* the first update, "same" while every update so far had size bytes, and  *)
(* "mixed" (with size 0) once two updates differed in length.  digest is    *)
(* followed through pad: the marker and the zero fill, the extra block of  *)
(* the first branch, then the length field, the last compression and the   *)
(* return.  padded lists the blocks pad has handed to compress; stale     *)
(* tells whether the block held a non-zero byte after the place of the     *)
(* marker when pad began.                                                  *)
(***************************************************************************)

MaxSha1MsgLen == 130

Sha1FillerLens == {55, 63, 64, 65, 120, MaxSha1MsgLen}

Sha1Messages ==
    {SHA1_TESTS[k].input : k \in 1..Len(SHA1_TESTS)}
        \cup {PatternBytes(n % 5, n) : n \in Sha1FillerLens}

\* the lengths of the next piece a caller may hand over when rem bytes are left
Sha1Sizes(rem) == {n \in {0, 1, 63, 64, 65, 128, rem} : n <= rem}

Sha1Init ==
    sha1_st \in [pc : {"updating"}, msg : Sha1Messages, pos : {0}, calls : {"none"}, size : {0},
                 h : {sha1_new}, stale : {FALSE}, padded : {<<>>}, out : {<<>>}]

Sha1OthersUnchanged == UNCHANGED <<des_st, md5_st, aes_st, tf_st, calls>>

\* state.update(input) with the next n bytes of the message
Sha1Update ==
    /\ sha1_st.pc = "updating"
    /\ \E n \in Sha1Sizes(Len(sha1_st.msg) - sha1_st.pos) :
          sha1_st' = [sha1_st EXCEPT
                        !.h = sha1_update(sha1_st.h,
                                          SubSeq(sha1_st.msg, sha1_st.pos + 1, sha1_st.pos + n)),
                        !.pos = sha1_st.pos + n,
                        !.calls = IF sha1_st.calls = "none" \/ (sha1_st.calls = "same" /\ sha1_st.size = n)
                                  THEN "same" ELSE "mixed",
                        !.size = IF sha1_st.calls = "none" \/ (sha1_st.calls = "same" /\ sha1_st.size = n)
                                 THEN n ELSE 0]
    /\ Sha1OthersUnchanged

\* state.digest() once the whole message has been handed over: pad up to
\* block_idx = 64 in its first branch, the whole of its second branch
Sha1PadMarker ==
    /\ sha1_st.pc = "updating"
    /\ sha1_st.pos = Len(sha1_st.msg)
    /\ sha1_st' = [sha1_st EXCEPT !.pc = "pad",
                                   !.stale = \E k \in (sha1_st.h.block_idx + 2)..64 :
                                                 sha1_st.h.block[k] # 0,
                                   !.h = IF sha1_st.h.block_idx > 55
                                         THEN sha1_pad_close_block(sha1_st.h)
                                         ELSE sha1_pad_same_block(sha1_st.h)]
    /\ Sha1OthersUnchanged

\* the rest of the first branch of pad: compress, clear, block_idx = 56
Sha1PadExtraBlock ==
    /\ sha1_st.pc = "pad"
    /\ sha1_st.h.block_idx = 64
    /\ sha1_st' = [sha1_st EXCEPT !.h = sha1_pad_fresh_block(sha1_st.h),
                                   !.padded = Append(sha1_st.padded, sha1_st.h.block)]
    /\ Sha1OthersUnchanged

\* the end of pad (the length field and the last compression), and the
\* bytes digest returns
Sha1Digest ==
    /\ sha1_st.pc = "pad"
    /\ sha1_st.h.block_idx = 56
    /\ \E padded \in {sha1_pad_length(sha1_st.h)} :
          sha1_st' = [sha1_st EXCEPT !.pc = "done",
                                     !.h = padded,
                                     !.padded = Append(sha1_st.padded, padded.block),
                                     !.out = sha1_digest_bytes(padded.state)]
    /\ Sha1OthersUnchanged

InitSha1 ==
    /\ Sha1Init
    /\ des_st = Idle
    /\ md5_st = Idle
    /\ aes_st = Idle
    /\ tf_st = Idle
    /\ calls = <<>>

NextSha1 == Sha1Update \/ Sha1PadMarker \/ Sha1PadExtraBlock \/ Sha1Digest

SpecSha1 == InitSha1 /\ [][NextSha1]_vars

(***************************************************************************)
(* AES callers: encrypt_128(plaintext, key), one action per call that      *)
(* encrypt_128 and encrypt_impl make, in the order of the code.  pc names  *)
(* the call that comes next; round counts the round keys used so far; ops  *)
(* lists the calls made, an add_round_key with the indices of the first    *)
(* and the last word of round_keys it was given.                           *)
(***************************************************************************)

MaxAesBlockSeed == 2
MaxAesKeySeed == 2

AesBlocks == {AesTestPlaintext} \cup {PatternBytes(20 + sd, 16) : sd \in 1..MaxAesBlockSeed}
AesKeys == {AesTestKey} \cup {PatternBytes(30 + sd, 16) : sd \in 1..MaxAesKeySeed}

AesInit ==
    aes_st \in [pc : {"key_expansion"}, plaintext : AesBlocks, key : AesKeys,
                round_keys : {<<>>}, state : {<<>>}, round : {0}, ops : {<<>>}, out : {<<>>}]

AesOthersUnchanged == UNCHANGED <<des_st, md5_st, sha1_st, tf_st, calls>>

\* let round_keys = key_expansion(key); let mut state = plaintext
AesKeyExpansion ==
    /\ aes_st.pc = "key_expansion"
    /\ aes_st' = [aes_st EXCEPT !.pc = "add_round_key",
                                !.round_keys = aes_key_expansion(aes_st.key),
                                !.state = aes_st.plaintext]
    /\ AesOthersUnchanged

\* add_round_key(&mut state, &round_keys[round * NB..(round + 1) * NB])
AesAddRoundKey ==
    /\ aes_st.pc = "add_round_key"
    /\ aes_st' = [aes_st EXCEPT
                    !.state = aes_add_round_key(aes_st.state,
                                                aes_round_key(aes_st.round_keys, aes_st.round)),
                    !.round = aes_st.round + 1,
                    !.ops = Append(aes_st.ops, <<"add_round_key", aes_st.round * NB,
                                                 ((aes_st.round + 1) * NB) - 1>>),
                    !.pc = IF aes_st.round = NR THEN "return" ELSE "sub_bytes"]
    /\ AesOthersUnchanged

\* sub_bytes followed by shift_rows in every round
AesSubBytesThenShiftRows ==
    /\ aes_st.pc = "sub_bytes"
    /\ aes_st' = [aes_st EXCEPT !.state = aes_sub_bytes(aes_st.state),
                                !.ops = Append(aes_st.ops, <<"sub_bytes">>),
                                !.pc = "shift_rows"]
    /\ AesOthersUnchanged

\* sub_bytes(&mut state), in the loop for round in 1..NR and after it
AesSubBytes ==
    /\ aes_st.pc = "sub_bytes"
    /\ aes_st' = [aes_st EXCEPT
                    !.state = aes_sub_bytes(aes_st.state),
                    !.ops = Append(aes_st.ops, <<"sub_bytes">>),
                    !.pc = IF aes_st.round < NR THEN "mix_columns" ELSE "shift_rows"]
    /\ AesOthersUnchanged

\* mix_columns(&mut state), in the loop
AesMixColumns ==
    /\ aes_st.pc = "mix_columns"
    /\ aes_st' = [aes_st EXCEPT !.state = aes_mix_columns(aes_st.state),
                                !.ops = Append(aes_st.ops, <<"mix_columns">>),
                                !.pc = "add_round_key"]
    /\ AesOthersUnchanged

\* shift_rows(&mut state), after the loop
AesShiftRows ==
    /\ aes_st.pc = "shift_rows"
    /\ aes_st' = [aes_st EXCEPT !.state = aes_shift_rows(aes_st.state),
                                !.ops = Append(aes_st.ops, <<"shift_rows">>),
                                !.pc = "add_round_key"]
    /\ AesOthersUnchanged

\* encrypt_impl returns state
AesReturn ==
    /\ aes_st.pc = "return"
    /\ aes_st' = [aes_st EXCEPT !.out = aes_st.state, !.pc = "done"]
    /\ AesOthersUnchanged

InitAes ==
    /\ AesInit
    /\ des_st = Idle
    /\ md5_st = Idle
    /\ sha1_st = Idle
    /\ tf_st = Idle
    /\ calls = <<>>

NextAes ==
    \/ AesKeyExpansion
    \/ AesAddRoundKey
    \/ AesSubBytes
    \/ AesMixColumns
    \/ AesShiftRows
    \/ AesReturn

SpecAes == InitAes /\ [][NextAes]_vars

(***************************************************************************)
(* Twofish callers: encrypt(plaintext, key), one action per stage of        *)
(* encrypt: the key expansion, the input whitening, each of the rounds,    *)
(* the output whitening.  r counts the rounds done.                        *)
(***************************************************************************)

MaxTfBlockSeed == 1
MaxTfKeySeed == 1

TfBlocks == {Zeros(16)} \cup {PatternBytes(50 + sd, 16) : sd \in 1..MaxTfBlockSeed}
TfKeys ==
    {TF_TESTS[k].key : k \in 1..Len(TF_TESTS)}
        \cup {PatternBytes(60 + sd, 16 + (8 * (sd % 3))) : sd \in 1..MaxTfKeySeed}

TfNoSchedule == [len_u64 |-> 0, sbox_keys |-> <<>>, subkeys |-> <<>>]

TfInit ==
    tf_st \in [pc : {"expand_key"}, plaintext : TfBlocks, key : TfKeys,
               schedule : {TfNoSchedule}, x : {<<>>}, r : {0}, out : {<<>>}]

TfOthersUnchanged == UNCHANGED <<des_st, md5_st, sha1_st, aes_st, calls>>

\* let schedule = expand_key(key)
TfExpandKey ==
    /\ tf_st.pc = "expand_key"
    /\ tf_st' = [tf_st EXCEPT !.pc = "whiten_in", !.schedule = expand_key(tf_st.key)]
    /\ TfOthersUnchanged

\* whitening with the first 4 keys
TfWhitenIn ==
    /\ tf_st.pc = "whiten_in"
    /\ tf_st' = [tf_st EXCEPT !.pc = "round",
                              !.x = tf_whiten_in(tf_st.plaintext, tf_st.schedule)]
    /\ TfOthersUnchanged

\* one turn of for r in 0..NUM_ROUNDS
TfRound ==
    /\ tf_st.pc = "round"
    /\ tf_st.r < NUM_ROUNDS
    /\ tf_st' = [tf_st EXCEPT !.x = tf_round(tf_st.x, tf_st.schedule, tf_st.r),
                              !.r = tf_st.r + 1,
                              !.pc = IF tf_st.r + 1 < NUM_ROUNDS THEN "round" ELSE "whiten_out"]
    /\ TfOthersUnchanged

\* whitening with the second 4 keys; encrypt returns ciphertext
TfWhitenOut ==
    /\ tf_st.pc = "whiten_out"
    /\ tf_st' = [tf_st EXCEPT !.pc = "done",
                              !.out = tf_whiten_out(tf_st.x, tf_st.schedule)]
    /\ TfOthersUnchanged

InitTf ==
    /\ TfInit
    /\ des_st = Idle
    /\ md5_st = Idle
    /\ sha1_st = Idle
    /\ aes_st = Idle
    /\ calls = <<>>

NextTf == TfExpandKey \/ TfWhitenIn \/ TfRound \/ TfWhitenOut

SpecTwofish == InitTf /\ [][NextTf]_vars


(***************************************************************************)
(* The two hashes together: a caller of either one.                        *)
(***************************************************************************)

InitHashes ==
    /\ \/ Md5Init /\ sha1_st = Idle
       \/ Sha1Init /\ md5_st = Idle
    /\ des_st = Idle
    /\ aes_st = Idle
    /\ tf_st = Idle
    /\ calls = <<>>

NextHashes == NextMd5 \/ NextSha1

SpecHashes == InitHashes /\ [][NextHashes]_vars


(***************************************************************************)
(* Block encryptions side by side: two calls, each of des::encrypt,        *)
(* aes::encrypt_128 or twofish::encrypt, whose steps interleave in any     *)
(* order.  A call owns its arguments and its locals (schedule: the round   *)
(* keys or the key schedule it derived; state: the block it works on;      *)
(* round: the rounds done); the crate has no static or global that is      *)
(* written, so nothing else is in the state.                               *)
(***************************************************************************)

MaxCallKeySeed == 1

\* the arguments a call of the given cipher may get
CallInputs(kind) ==
    CASE kind = "des" ->
           {[plaintext |-> DesTestPlaintext, key |-> k] :
               k \in {DesTestKey}
                        \cup {u64_from_le_bytes(PatternBytes(40 + sd, 8)) : sd \in 1..MaxCallKeySeed}}
      [] kind = "aes" ->
           {[plaintext |-> AesTestPlaintext, key |-> k] :
               k \in {AesTestKey} \cup {PatternBytes(30 + sd, 16) : sd \in 1..MaxCallKeySeed}}
      [] kind = "twofish" ->
           {[plaintext |-> Zeros(16), key |-> k] :
               k \in {TF_TESTS[3].key}
                        \cup {PatternBytes(60 + sd, 16 + (8 * (sd % 3))) : sd \in 1..MaxCallKeySeed}}

CallStart(kind, input) ==
    [kind |-> kind,
     pc |-> CASE kind = "des" -> "round_keys"
              [] kind = "aes" -> "key_expansion"
              [] kind = "twofish" -> "expand_key",
     plaintext |-> input.plaintext, key |-> input.key,
     schedule |-> <<>>, state |-> <<>>, round |-> 0, out |-> <<>>]

\* des::encrypt: round_keys(key), then des(plaintext, round_keys)
DesNext(c) ==
    CASE c.pc = "round_keys" -> [c EXCEPT !.pc = "des", !.schedule = des_round_keys(c.key)]
      [] c.pc = "des" -> [c EXCEPT !.pc = "done", !.out = des(c.plaintext, c.schedule)]

\* aes::encrypt_128 and encrypt_impl, call by call
AesNext(c) ==
    CASE c.pc = "key_expansion" ->
           [c EXCEPT !.pc = "add_round_key", !.schedule = aes_key_expansion(c.key),
                     !.state = c.plaintext]
      [] c.pc = "add_round_key" ->
           [c EXCEPT !.state = aes_add_round_key(c.state, aes_round_key(c.schedule, c.round)),
                     !.round = c.round + 1,
                     !.pc = IF c.round = NR THEN "return" ELSE "sub_bytes"]
      [] c.pc = "sub_bytes" ->
           [c EXCEPT !.state = aes_sub_bytes(c.state),
                     !.pc = IF c.round < NR THEN "mix_columns" ELSE "shift_rows"]
      [] c.pc = "mix_columns" ->
           [c EXCEPT !.state = aes_mix_columns(c.state), !.pc = "add_round_key"]
      [] c.pc = "shift_rows" ->
           [c EXCEPT !.state = aes_shift_rows(c.state), !.pc = "add_round_key"]
      [] c.pc = "return" -> [c EXCEPT !.out = c.state, !.pc = "done"]

\* twofish::encrypt, stage by stage
TfNext(c) ==
    CASE c.pc = "expand_key" -> [c EXCEPT !.pc = "whiten_in", !.schedule = expand_key(c.key)]
      [] c.pc = "whiten_in" ->
           [c EXCEPT !.pc = "round", !.state = tf_whiten_in(c.plaintext, c.schedule)]
      [] c.pc = "round" ->
           [c EXCEPT !.state = tf_round(c.state, c.schedule, c.round),
                     !.round = c.round + 1,
                     !.pc = IF c.round + 1 < NUM_ROUNDS THEN "round" ELSE "whiten_out"]
      [] c.pc = "whiten_out" ->
           [c EXCEPT !.pc = "done", !.out = tf_whiten_out(c.state, c.schedule)]

CallNext(c) ==
    CASE c.kind = "des" -> DesNext(c)
      [] c.kind = "aes" -> AesNext(c)
      [] c.kind = "twofish" -> TfNext(c)

CallsOthersUnchanged == UNCHANGED <<des_st, md5_st, sha1_st, aes_st, tf_st>>

\* a step in which the schedule the call holds is kept in one place for all
\* the calls of its cipher
CallStepSharedSchedule(i) ==
    /\ calls[i].pc # "done"
    /\ calls' = [j \in 1..Len(calls) |->
                    IF j = i THEN CallNext(calls[i])
                    ELSE IF calls[j].kind = calls[i].kind
                    THEN [calls[j] EXCEPT !.schedule = CallNext(calls[i]).schedule]
                    ELSE calls[j]]
    /\ CallsOthersUnchanged

\* the next step of call i
CallStep(i) ==
    /\ calls[i].pc # "done"
    /\ calls' = [calls EXCEPT ![i] = CallNext(calls[i])]
    /\ CallsOthersUnchanged

InitCiphers ==
    /\ \E k1 \in {"des", "aes", "twofish"}, k2 \in {"des", "aes", "twofish"} :
          \E i1 \in CallInputs(k1), i2 \in CallInputs(k2) :
              calls = <<CallStart(k1, i1), CallStart(k2, i2)>>
    /\ des_st = Idle
    /\ md5_st = Idle
    /\ sha1_st = Idle
    /\ aes_st = Idle
    /\ tf_st = Idle

NextCiphers == \E i \in 1..Len(calls) : CallStep(i)

SpecCiphers == InitCiphers /\ [][NextCiphers]_vars


(***************************************************************************)
(* The S-box lookup of DES: feistel calls s(block, i) for i in 0..8 with   *)
(* block = mixed as u8 & 0b111111, any 6-bit value.  i is the local i of s.*)
(***************************************************************************)

DesSInit ==
    des_st \in [pc : {"s"}, block : 0..63, n : 0..7, i : {0}, out : {0}]

\* s(block, n)
DesS ==
    /\ des_st.pc = "s"
    /\ des_st' = [des_st EXCEPT !.pc = "s_done",
                                !.i = des_s_i(des_st.block),
                                !.out = des_s(des_st.block, des_st.n)]
    /\ DesOthersUnchanged

InitDesSbox ==
    /\ DesSInit
    /\ md5_st = Idle /\ sha1_st = Idle /\ aes_st = Idle /\ tf_st = Idle
    /\ calls = <<>>

NextDesSbox == DesS

SpecDesSbox == InitDesSbox /\ [][NextDesSbox]_vars


(***************************************************************************)
(* The MD5 bit counter under long inputs: Md5::new(), then at most         *)
(* MaxMd5CountUpdates calls of update, each with an input whose length is  *)
(* drawn from Md5CountLens (lengths up to 2^32 - 1 bytes, given as u32).   *)
(* Only the counter lines of update are followed (md5.rs:30-35); the byte  *)
(* loop after them (md5.rs:37-46) writes buffer, idx, block and state and  *)
(* never count.  lens lists the lengths handed over so far, prev is count  *)
(* before the last call.                                                   *)
(***************************************************************************)

MaxMd5CountUpdates == 3

\* 0, 1, 2^28, 2^29 - 1, 2^29, 2^31 and 2^32 - 1 bytes
Md5CountLens ==
    {U32(0, 0), U32(0, 1), U32(\h1000, 0), U32(\h1FFF, \hFFFF), U32(\h2000, 0),
     U32(\h8000, 0), U32(\hFFFF, \hFFFF)}

Md5CountInit ==
    md5_st \in [pc : {"counting"}, count : {md5_new.count}, prev : {md5_new.count},
                lens : {<<>>}]

\* state.update(input) with input.len() = len
Md5UpdateCount ==
    /\ md5_st.pc = "counting"
    /\ Len(md5_st.lens) < MaxMd5CountUpdates
    /\ \E len \in Md5CountLens :
          md5_st' = [md5_st EXCEPT !.count = md5_count(md5_st.count, len),
                                   !.prev = md5_st.count,
                                   !.lens = Append(md5_st.lens, len)]
    /\ Md5OthersUnchanged

InitMd5Count ==
    /\ Md5CountInit
    /\ des_st = Idle
    /\ sha1_st = Idle
    /\ aes_st = Idle
    /\ tf_st = Idle
    /\ calls = <<>>

NextMd5Count == Md5UpdateCount

SpecMd5Count == InitMd5Count /\ [][NextMd5Count]_vars

(***************************************************************************)
(* compress of SHA-1 step by step: the words of the block are decoded,     *)
(* then the five loops run their 16 + 4 + 20 + 20 + 20 steps, then h is    *)
(* added to the state.  t counts the steps done.  Of the last step, added  *)
(* is the schedule word w[s] it added, bcd the words b, c, d it handed to  *)
(* its closure and fv the closure's value.                                 *)
(***************************************************************************)

MaxSha1BlockSeed == 2

\* the blocks compressed: filler blocks, and the padded block of "abc"
Sha1CompressBlocks ==
    {PatternBytes(seed, 64) : seed \in 0..MaxSha1BlockSeed}
        \cup {sha1_digest_self(sha1_update(sha1_new, SHA1_TESTS[1].input)).block}

Sha1CompressInit ==
    \E block \in Sha1CompressBlocks :
        sha1_st = [pc |-> "compress", block |-> block, state |-> sha1_new.state, t |-> 0,
                   h |-> sha1_new.state, w |-> sha1_block_words(block),
                   added |-> U32Zero, bcd |-> <<>>, fv |-> U32Zero, out |-> <<>>]

\* one step of a loop of compress that calls step0
Sha1CompressStep0(K, f) ==
    sha1_st' = [sha1_st EXCEPT
                  !.t = sha1_st.t + 1,
                  !.h = sha1_step0(sha1_st.h, sha1_st.w, sha1_st.t, K, f),
                  !.added = sha1_st.w[And8[sha1_st.t][\hF] + 1],
                  !.bcd = <<sha1_st.h[2], sha1_st.h[3], sha1_st.h[4]>>,
                  !.fv = sha1_call(f, sha1_st.h[2], sha1_st.h[3], sha1_st.h[4])]

\* one step of a loop of compress that calls step
Sha1CompressStep(K, f) ==
    \E turn \in {sha1_loop_turn([t |-> sha1_st.t, h |-> sha1_st.h, w |-> sha1_st.w], K, f)} :
        sha1_st' = [sha1_st EXCEPT
                      !.t = turn.t,
                      !.h = turn.h,
                      !.w = turn.w,
                      !.added = turn.w[And8[sha1_st.t][\hF] + 1],
                      !.bcd = <<sha1_st.h[2], sha1_st.h[3], sha1_st.h[4]>>,
                      !.fv = sha1_call(f, sha1_st.h[2], sha1_st.h[3], sha1_st.h[4])]

\* for t in 0..16 { h = step0::<_, K0>(h, &w, t, |b, c, d| (b & c) | ((!b) & d)) }
Sha1Loop0 ==
    /\ sha1_st.pc = "compress"
    /\ sha1_st.t < 16
    /\ Sha1CompressStep0(K0, "ch")
    /\ Sha1OthersUnchanged

\* for t in 16..20 { h = step::<_, K0>(h, &mut w, t, |b, c, d| (b & c) | ((!b) & d)) }
Sha1Loop1 ==
    /\ sha1_st.pc = "compress"
    /\ sha1_st.t >= 16
    /\ sha1_st.t < 20
    /\ Sha1CompressStep(K0, "ch")
    /\ Sha1OthersUnchanged

\* for t in 20..40 { h = step::<_, K1>(h, &mut w, t, |b, c, d| b ^ c ^ d) }
Sha1Loop2 ==
    /\ sha1_st.pc = "compress"
    /\ sha1_st.t >= 20
    /\ sha1_st.t < 40
    /\ Sha1CompressStep(K1, "parity")
    /\ Sha1OthersUnchanged

\* for t in 40..60 { h = step::<_, K2>(h, &mut w, t, |b, c, d| (b & c) | (b & d) | (c & d)) }
Sha1Loop3 ==
    /\ sha1_st.pc = "compress"
    /\ sha1_st.t >= 40
    /\ sha1_st.t < 60
    /\ Sha1CompressStep(K2, "maj")
    /\ Sha1OthersUnchanged

\* for t in 60..80 { h = step::<_, K3>(h, &mut w, t, |b, c, d| b ^ c ^ d) }
Sha1Loop4 ==
    /\ sha1_st.pc = "compress"
    /\ sha1_st.t >= 60
    /\ sha1_st.t < 80
    /\ Sha1CompressStep(K3, "parity")
    /\ Sha1OthersUnchanged

\* state[i] = state[i].wrapping_add(h[i])
Sha1CompressAdd ==
    /\ sha1_st.pc = "compress"
    /\ sha1_st.t = 80
    /\ sha1_st' = [sha1_st EXCEPT !.pc = "compressed",
                                   !.out = sha1_compress_add(sha1_st.state, sha1_st.h)]
    /\ Sha1OthersUnchanged

InitSha1Compress ==
    /\ Sha1CompressInit
    /\ des_st = Idle
    /\ md5_st = Idle
    /\ aes_st = Idle
    /\ tf_st = Idle
    /\ calls = <<>>

NextSha1Compress ==
    Sha1Loop0 \/ Sha1Loop1 \/ Sha1Loop2 \/ Sha1Loop3 \/ Sha1Loop4 \/ Sha1CompressAdd

SpecSha1Compress == InitSha1Compress /\ [][NextSha1Compress]_vars

(***************************************************************************)
(* The DES key schedule: rotate_key_left called on 28-bit values, as      *)
(* tests::test_rotate_key_left calls it, and round_keys                    *)
(* followed item by item.  left0 and right0 are the halves round_keys      *)
(* starts from, shifted the sum of the shifts applied so far.              *)
(***************************************************************************)

MaxDesRotate == 2
MaxDesRotateSeed == 5

\* 1, 1 << 27, (1 << 28) - 1, and filler values below 2^28
DesRotateBits ==
    {BitsOf(1, 64), bv_shl(BitsOf(1, 64), 27), BitsOf((2 ^ 28) - 1, 64)}
        \cup {bv_low(u64_from_le_bytes(PatternBytes(20 + sd, 8)), 28) : sd \in 0..MaxDesRotateSeed}

DesRotateInit ==
    des_st \in [pc : {"rotate"}, bits : DesRotateBits, n : 0..MaxDesRotate, out : {<<>>}]

\* rotate_key_left(bits, n)
DesRotateKeyLeft ==
    /\ des_st.pc = "rotate"
    /\ des_st' = [des_st EXCEPT !.pc = "rotated",
                                !.out = des_rotate_key_left(des_st.bits, des_st.n)]
    /\ DesOthersUnchanged

DesKeysInit ==
    des_st \in [pc : {"key"}, key : DesKeys, round : {0}, left_key : {<<>>}, right_key : {<<>>},
                left0 : {<<>>}, right0 : {<<>>}, shifted : {0}, keys : {<<>>}]

\* round_keys(key) up to the iterator: PC1 and the two halves
DesRoundKeysStart ==
    /\ des_st.pc = "key"
    /\ \E k \in {des_permute(PC1_BITS, des_st.key)} :
          des_st' = [des_st EXCEPT !.pc = "rounds",
                                   !.left_key = bv_low(k, 28),
                                   !.right_key = bv_shr(k, 28),
                                   !.left0 = bv_low(k, 28),
                                   !.right0 = bv_shr(k, 28)]
    /\ DesOthersUnchanged

\* the next item of the iterator of round_keys
DesRoundKeysNext ==
    /\ des_st.pc = "rounds"
    /\ des_st.round < 16
    /\ \E left_key \in {des_rotate_key_left(des_st.left_key, LEFT_SHIFTS[des_st.round + 1])} :
       \E right_key \in {des_rotate_key_left(des_st.right_key, LEFT_SHIFTS[des_st.round + 1])} :
          des_st' = [des_st EXCEPT
                       !.round = des_st.round + 1,
                       !.left_key = left_key,
                       !.right_key = right_key,
                       !.shifted = des_st.shifted + LEFT_SHIFTS[des_st.round + 1],
                       !.keys = Append(des_st.keys,
                                       des_permute(PC2_BITS,
                                                   bv_or(bv_shl(right_key, 28), left_key)))]
    /\ DesOthersUnchanged

InitDesKeys ==
    /\ DesRotateInit \/ DesKeysInit
    /\ md5_st = Idle /\ sha1_st = Idle /\ aes_st = Idle /\ tf_st = Idle
    /\ calls = <<>>

NextDesKeys == DesRotateKeyLeft \/ DesRoundKeysStart \/ DesRoundKeysNext

SpecDesKeys == InitDesKeys /\ [][NextDesKeys]_vars

(***************************************************************************)
(* DES under two keys that differ in some of the bit positions 8, 16, ..., *)
(* 64 (position p is bit p - 1, as permute counts them): the round keys of *)
(* both, encrypt of one block under both, and decrypt of the first         *)
(* ciphertext under both.                                                  *)
(***************************************************************************)

\* the sets of positions in which the second key differs from the first
DesParityFlips == {{8}, {64}, {16, 40}, {8, 16, 24, 32, 40, 48, 56, 64}}

\* key with the bits at the positions flipped
DesFlipped(key, positions) ==
    Built([k \in 1..64 |-> IF k \in positions THEN 1 - key[k] ELSE key[k]])

DesParityBlocks == {DesTestPlaintext, u64_from_le_bytes(PatternBytes(0, 8))}

DesParityInit ==
    \E key \in DesKeys : \E positions \in DesParityFlips : \E block \in DesParityBlocks :
        des_st = [pc |-> "keys", block |-> block, k1 |-> key, k2 |-> DesFlipped(key, positions),
                  keys1 |-> <<>>, keys2 |-> <<>>, ct1 |-> <<>>, ct2 |-> <<>>,
                  out1 |-> <<>>, out2 |-> <<>>]

\* round_keys(k1).collect() and round_keys(k2).collect()
DesParityRoundKeys ==
    /\ des_st.pc = "keys"
    /\ des_st' = [des_st EXCEPT !.pc = "scheduled",
                                !.keys1 = des_round_keys(des_st.k1),
                                !.keys2 = des_round_keys(des_st.k2)]
    /\ DesOthersUnchanged

\* encrypt(block, k1) and encrypt(block, k2)
DesParityEncrypt ==
    /\ des_st.pc = "scheduled"
    /\ des_st' = [des_st EXCEPT !.pc = "encrypted",
                                !.ct1 = des_encrypt(des_st.block, des_st.k1),
                                !.ct2 = des_encrypt(des_st.block, des_st.k2)]
    /\ DesOthersUnchanged

\* decrypt(ct1, k1) and decrypt(ct1, k2)
DesParityDecrypt ==
    /\ des_st.pc = "encrypted"
    /\ des_st' = [des_st EXCEPT !.pc = "decrypted",
                                !.out1 = des_decrypt(des_st.ct1, des_st.k1),
                                !.out2 = des_decrypt(des_st.ct1, des_st.k2)]
    /\ DesOthersUnchanged

InitDesParity ==
    /\ DesParityInit
    /\ md5_st = Idle /\ sha1_st = Idle /\ aes_st = Idle /\ tf_st = Idle
    /\ calls = <<>>

NextDesParity == DesParityRoundKeys \/ DesParityEncrypt \/ DesParityDecrypt

SpecDesParity == InitDesParity /\ [][NextDesParity]_vars

(***************************************************************************)
(* mix_columns and shift_rows called on a state, as tests::test_mix_       *)
(* columns and tests::test_shift_rows call them; shift_rows is called up   *)
(* to four times in a row on the same state.  times counts its calls.      *)
(***************************************************************************)

MaxAesOpSeed == 15
MaxAesShiftCalls == 4

AesOpStates ==
    {AesMixTestState, AesShiftTestState}
        \cup {PatternBytes(50 + sd, 4 * NB) : sd \in 0..MaxAesOpSeed}

AesOpInit ==
    aes_st \in [pc : {"state"}, state : AesOpStates, times : {0}, out : {<<>>}]

\* mix_columns(&mut state)
AesOpMixColumns ==
    /\ aes_st.pc = "state"
    /\ aes_st' = [aes_st EXCEPT !.pc = "mixed", !.out = aes_mix_columns(aes_st.state)]
    /\ AesOthersUnchanged

\* shift_rows(&mut state), for the first time or once more
AesOpShiftRows ==
    /\ aes_st.pc \in {"state", "shifted"}
    /\ aes_st.times < MaxAesShiftCalls
    /\ aes_st' = [aes_st EXCEPT
                    !.pc = "shifted",
                    !.times = aes_st.times + 1,
                    !.out = aes_shift_rows(IF aes_st.times = 0 THEN aes_st.state ELSE aes_st.out)]
    /\ AesOthersUnchanged

InitAesOps ==
    /\ AesOpInit
    /\ des_st = Idle
    /\ md5_st = Idle
    /\ sha1_st = Idle
    /\ tf_st = Idle
    /\ calls = <<>>

NextAesOps == AesOpMixColumns \/ AesOpShiftRows

SpecAesOps == InitAesOps /\ [][NextAesOps]_vars
(***************************************************************************)
(* Claims about DES                                                        *)
(***************************************************************************)

\* C1: for every block b and key k, des::decrypt(des::encrypt(b, k), k) == b:
\* once the caller has encrypted its block and decrypted the result under the
\* same key, it holds the block it started with.
C1_DesRoundTrip ==
    des_st.pc = "decrypted" => des_st.out = des_st.block

\* a filler block has been encrypted to something else and decrypted again
C1_Witness ==
    /\ des_st.pc = "decrypted"
    /\ des_st.block # DesTestPlaintext
    /\ des_st.key # DesTestKey
    /\ des_st.ct # des_st.block

\* C2: for every block b and every sequence ks of 16 round keys below 2^48,
\* whatever it was derived from, des(des(b, ks), reverse(ks)) == b.
C2_DesPrimitiveInverse ==
    des_st.pc = "unapplied" =>
        /\ Len(des_st.round_keys) = 16
        /\ \A r \in 1..16 : \A k \in 49..64 : des_st.round_keys[r][k] = 0
        /\ des_st.out = des_st.block

\* des was applied with round keys that are not those of the caller's key and
\* not a palindrome, and applied again with them reversed
C2_Witness ==
    /\ des_st.pc = "unapplied"
    /\ des_st.round_keys # des_round_keys(des_st.key)
    /\ des_st.round_keys # Reverse(des_st.round_keys)
    /\ des_st.ct # des_st.block

\* the u64 with the four 16-bit groups g3 g2 g1 g0, most significant first
U64OfGroups(g3, g2, g1, g0) ==
    BitsOf(g0, 16) \o BitsOf(g1, 16) \o BitsOf(g2, 16) \o BitsOf(g3, 16)

\* C9: des::encrypt(0xEEFFC00000000000, 0x0DF0000000000000) is
\* 0x972986C8BAE971A2, these being the u64::from_le_bytes readings of the
\* test's hex strings, and des::decrypt of that ciphertext under the same key
\* returns the plaintext.
C9_DesKnownAnswer ==
    /\ DesTestPlaintext = U64OfGroups(\hEEFF, \hC000, \h0000, \h0000)
    /\ DesTestKey = U64OfGroups(\h0DF0, \h0000, \h0000, \h0000)
    /\ DesTestCiphertext = U64OfGroups(\h9729, \h86C8, \hBAE9, \h71A2)
    /\ (des_st.block = DesTestPlaintext /\ des_st.key = DesTestKey) =>
          /\ des_st.pc \in {"encrypted", "decrypted"} => des_st.ct = DesTestCiphertext
          /\ des_st.pc = "decrypted" => des_st.out = DesTestPlaintext

C9_Witness ==
    /\ des_st.pc = "decrypted"
    /\ des_st.block = DesTestPlaintext
    /\ des_st.key = DesTestKey
    /\ des_st.ct = DesTestCiphertext


\* C15: DES S-box addressing.  For every S-box n in 0..7 and every 6-bit
\* group g, s(g, n) returns S_BOXES[n][16 * row + col], where col is bits
\* 1..4 of g and the row, in 0..3, is determined by bits 0 and 5 of g only:
\* every group with the same bits 0 and 5 selects the same row.
C15_DesSboxAddressing ==
    des_st.pc = "s_done" =>
        /\ des_st.i \in 0..3
        /\ des_st.out = S_BOXES[des_st.n + 1][(16 * des_st.i) + ((des_st.block \div 2) % 16) + 1]
        /\ \A g \in 0..63 :
              (g % 2 = des_st.block % 2 /\ g \div 32 = des_st.block \div 32)
                  => des_s_i(g) = des_st.i

\* the cyclic left rotation by n within the low 28 bits of a 64-bit value
Rotl28(bits, n) ==
    [k \in 1..64 |-> IF k <= 28 THEN bits[((((k - 1) + (28 * n)) - n) % 28) + 1] ELSE 0]

\* the sum of LEFT_SHIFTS[0..round]
RECURSIVE ShiftsUpTo(_)
ShiftsUpTo(round) == IF round = 0 THEN 0 ELSE LEFT_SHIFTS[round] + ShiftsUpTo(round - 1)

\* C23: DES key-schedule rotation.  rotate_key_left(bits, n) of a 28-bit
\* value is its cyclic left rotation by n within 28 bits: bit 27 wraps to
\* bit 0, the result is below 2^28, and the all-ones value is unchanged.
\* round_keys applies it to both 28-bit halves with n = LEFT_SHIFTS[round]
\* (1 or 2) in each of the 16 rounds, cumulatively, before PC2, and yields
\* exactly 16 round keys, each below 2^48.
C23_DesKeyRotation ==
    /\ des_st.pc = "rotated" =>
          /\ des_st.out = Rotl28(des_st.bits, des_st.n)
          /\ \A k \in 29..64 : des_st.out[k] = 0
          /\ (des_st.n >= 1 /\ des_st.bits[28] = 1) => des_st.out[des_st.n] = 1
          /\ des_st.bits = BitsOf((2 ^ 28) - 1, 64) => des_st.out = des_st.bits
    /\ des_st.pc = "rounds" =>
          /\ des_st.round \in 0..16
          /\ Len(des_st.keys) = des_st.round
          /\ \A r \in 1..16 : LEFT_SHIFTS[r] \in {1, 2}
          /\ des_st.shifted = ShiftsUpTo(des_st.round)
          /\ des_st.left_key = Rotl28(des_st.left0, des_st.shifted)
          /\ des_st.right_key = Rotl28(des_st.right0, des_st.shifted)
          /\ \A k \in 29..64 : des_st.left0[k] = 0 /\ des_st.right0[k] = 0
          /\ \A r \in 1..des_st.round :
                /\ \A k \in 49..64 : des_st.keys[r][k] = 0
                /\ des_st.keys[r] = des_round_keys(des_st.key)[r]
          /\ des_st.round = 16 => des_st.keys = des_round_keys(des_st.key)

\* round_keys has yielded its 16 keys: the shifts sum to 28, so both halves
\* are back where they started, after having been elsewhere
C23_Witness ==
    /\ des_st.pc = "rounds"
    /\ des_st.round = 16
    /\ Len(des_st.keys) = 16
    /\ des_st.shifted = 28
    /\ des_st.left_key = des_st.left0
    /\ des_st.left0 # Rotl28(des_st.left0, 1)
    /\ des_st.keys[1] # des_st.keys[16]

\* C24: the effective DES key is 56 bits.  Two 64-bit keys that differ only
\* in bit positions not listed in PC1_BITS (positions 8, 16, 24, 32, 40, 48,
\* 56, 64) give the same 16 round keys, and therefore encrypt every block
\* to the same ciphertext and decrypt every ciphertext to the same block.
C24_DesEffectiveKey ==
    /\ des_st.pc \in {"keys", "scheduled", "encrypted", "decrypted"} =>
          /\ des_st.k1 # des_st.k2
          /\ \A p \in 1..64 :
                des_st.k1[p] # des_st.k2[p]
                    => /\ p % 8 = 0
                       /\ \A i \in 1..Len(PC1_BITS) : PC1_BITS[i] # p
          /\ \A p \in 1..64 : p % 8 = 0 <=> (\A i \in 1..Len(PC1_BITS) : PC1_BITS[i] # p)
    /\ des_st.pc \in {"scheduled", "encrypted", "decrypted"} =>
          /\ Len(des_st.keys1) = 16
          /\ des_st.keys1 = des_st.keys2
    /\ des_st.pc \in {"encrypted", "decrypted"} => des_st.ct1 = des_st.ct2
    /\ des_st.pc = "decrypted" =>
          /\ des_st.out1 = des_st.out2
          /\ des_st.out1 = des_st.block

\* two keys that differ in all eight positions have encrypted a block to
\* the same ciphertext, which both have decrypted
C24_Witness ==
    /\ des_st.pc = "decrypted"
    /\ \A p \in {8, 16, 24, 32, 40, 48, 56, 64} : des_st.k1[p] # des_st.k2[p]
    /\ des_st.ct1 = des_st.ct2
    /\ des_st.ct1 # des_st.block
    /\ des_st.out2 = des_st.block
(***************************************************************************)
(* Claims about MD5                                                        *)
(***************************************************************************)

C7_Md5KnownAnswers ==
    /\ \A k \in 1..Len(MD5_TESTS) :
          (md5_st.pc = "done" /\ md5_st.msg = MD5_TESTS[k].input)
              => md5_st.out = MD5_TESTS[k].digest
    /\ md5_st.pc = "updating" /\ md5_st.pos = 0 /\ md5_st.calls = 0
          => \A k \in 1..Len(MD5_TESTS) :
                md5_st.msg = MD5_TESTS[k].input => md5(md5_st.msg) = MD5_TESTS[k].digest

\* the 80-digit test string has been hashed to 57edf4a2...
C7_Witness ==
    /\ md5_st.pc = "done"
    /\ md5_st.msg = MD5_TESTS[7].input
    /\ Len(md5_st.msg) = 80
    /\ md5_st.out = MD5_TESTS[7].digest
    /\ md5_st.out[1] = \h57


\* the sum of the half h (1 high, 2 low) of the lengths in lens
RECURSIVE LenHalfSum(_, _)
LenHalfSum(lens, h) ==
    IF lens = <<>> THEN 0 ELSE lens[1][h] + LenHalfSum(Tail(lens), h)

\* 8 * (the sum of lens) mod 2^64 as the two words <<low, high>>, computed
\* in 16 bit limbs
TotalBits(lens) ==
    LET limb0 == 8 * LenHalfSum(lens, 2)
        limb1 == (8 * LenHalfSum(lens, 1)) + (limb0 \div 65536)
        limb2 == limb1 \div 65536
    IN  <<U32(limb1 % 65536, limb0 % 65536), U32((limb2 \div 65536) % 65536, limb2 % 65536)>>

\* adding the low 32 bits of 8 * len to the word low passes 2^32
WrapsLow(low, len) ==
    low[1] + ((len[1] * 8) % 65536) + (len[2] \div 8192)
        + ((low[2] + ((len[2] * 8) % 65536)) \div 65536) >= 65536

BitLenLe(n) ==
    <<(8 * n) % 256, ((8 * n) \div 256) % 256, ((8 * n) \div 65536) % 256, 0, 0, 0, 0, 0>>

\* C19: MD5 padding.  For a message of n bytes digest hands to update one
\* 0x80 byte and then zero bytes, between 1 and 64 bytes in all, so that the
\* buffered length becomes 56 mod 64, and then the 8 bytes of the bit length
\* 8 * n, lowest byte first, as saved before the padding was fed.  digest
\* calls transform exactly once when n mod 64 <= 55 and exactly twice when
\* n mod 64 >= 56, and the bytes compressed in all are the least multiple of
\* 64 that is >= n + 9.
C19_Md5Padding ==
    /\ md5_st.pc = "updating" => md5_st.transforms = md5_st.pos \div 64
    /\ md5_st.pc \in {"pad", "done"} =>
          /\ Len(md5_st.fed) \in 1..64
          /\ md5_st.fed[1] = \h80
          /\ \A i \in 2..Len(md5_st.fed) : md5_st.fed[i] = 0
          /\ (Len(md5_st.msg) + Len(md5_st.fed)) % 64 = 56
          /\ md5_st.len_bits = BitLenLe(Len(md5_st.msg))
    /\ md5_st.pc = "pad" =>
          /\ md5_idx(md5_st.h) = 56
          /\ md5_st.transforms = (Len(md5_st.msg) + Len(md5_st.fed)) \div 64
    /\ md5_st.pc = "done" =>
          /\ md5_idx(md5_st.h) = 0
          /\ md5_st.transforms - (Len(md5_st.msg) \div 64)
                = (IF Len(md5_st.msg) % 64 <= 55 THEN 1 ELSE 2)
          /\ (64 * md5_st.transforms) % 64 = 0
          /\ 64 * md5_st.transforms >= Len(md5_st.msg) + 9
          /\ 64 * (md5_st.transforms - 1) < Len(md5_st.msg) + 9

\* digest has returned for a message that ends 56 bytes into a block: 64
\* bytes of padding were fed and transform was called twice
C19_Witness ==
    /\ md5_st.pc = "done"
    /\ Len(md5_st.msg) % 64 = 56
    /\ Len(md5_st.fed) = 64
    /\ md5_st.fed[1] = \h80
    /\ md5_st.transforms = (Len(md5_st.msg) \div 64) + 2
    /\ md5_st.len_bits = BitLenLe(Len(md5_st.msg))
(***************************************************************************)
(* Claims about SHA-1                                                      *)
(***************************************************************************)

\* C4: SHA-1 chunking invariance.  Whenever digest() has returned after the
\* message was handed over in any number of update calls of any sizes (one
\* byte per call, exactly 64 bytes per call, empty calls, pieces that end
\* inside a block), the 20 bytes returned are those of sha1(m), a single
\* update(m) followed by digest().
C4_Sha1ChunkingInvariance ==
    sha1_st.pc = "done" =>
        /\ sha1_st.out = sha1(sha1_st.msg)
        /\ sha1_st.out = sha1_digest(sha1_update(sha1_new, sha1_st.msg))
        /\ Len(sha1_st.out) = 20

\* a message of more than two blocks was handed over one byte per call, and
\* digest() has returned
C4_Witness ==
    /\ sha1_st.pc = "done"
    /\ sha1_st.calls = "same"
    /\ sha1_st.size = 1
    /\ Len(sha1_st.msg) > 128
    /\ sha1_st.h.len = Len(sha1_st.msg)
    /\ sha1_st.out = sha1(sha1_st.msg)

\* C8: SHA-1 known answers.  sha1("abc") is a9993e36...9cd0d89d and sha1 of
\* the 56-byte test message is 84983e44...e54670f1, and a caller that hashes
\* one of them gets that digest.
C8_Sha1KnownAnswers ==
    /\ \A k \in 1..Len(SHA1_TESTS) :
          (sha1_st.pc = "done" /\ sha1_st.msg = SHA1_TESTS[k].input)
              => sha1_st.out = SHA1_TESTS[k].digest
    /\ sha1_st.pc = "updating" /\ sha1_st.pos = 0 /\ sha1_st.calls = "none"
          => \A k \in 1..Len(SHA1_TESTS) :
                sha1_st.msg = SHA1_TESTS[k].input => sha1(sha1_st.msg) = SHA1_TESTS[k].digest

\* the 56-byte test message has been hashed in one call to 84983e44...
C8_Witness ==
    /\ sha1_st.pc = "done"
    /\ sha1_st.msg = SHA1_TESTS[2].input
    /\ Len(sha1_st.msg) = 56
    /\ sha1_st.calls = "same"
    /\ sha1_st.size = 56
    /\ sha1_st.out = SHA1_TESTS[2].digest
    /\ sha1_st.out[1] = \h84


\* the 8 bytes of the bit length 8 * n, highest byte first, for n < 2^20
BitLenBe(n) ==
    <<0, 0, 0, 0, 0, ((8 * n) \div 65536) % 256, ((8 * n) \div 256) % 256, (8 * n) % 256>>

\* the last r bytes of msg
MsgTail(msg, r) == SubSeq(msg, (Len(msg) - r) + 1, Len(msg))

\* the blocks the padding of msg is to consist of, r bytes of it buffered
PaddedBlocks(msg, r) ==
    IF r <= 55
    THEN <<MsgTail(msg, r) \o <<\h80>> \o Zeros(55 - r) \o BitLenBe(Len(msg))>>
    ELSE <<MsgTail(msg, r) \o <<\h80>> \o Zeros(63 - r),
           Zeros(56) \o BitLenBe(Len(msg))>>

\* C20: SHA-1 padding.  With r = block_idx bytes buffered at digest time
\* (the last r bytes of the message), if r <= 55 pad compresses exactly one
\* block: the buffered bytes, 0x80, zeros up to byte 55 and the big-endian
\* 64-bit value 8 * len; if r is in 56..63 it compresses the block of the
\* buffered bytes, 0x80 and zeros to byte 63, and then a block of 56 zero
\* bytes followed by the big-endian 64-bit value 8 * len.  Every byte
\* between the marker and the length field is zero, whatever earlier
\* updates left in the block.
C20_Sha1Padding ==
    /\ (sha1_st.pc = "updating" /\ sha1_st.pos = Len(sha1_st.msg)) =>
          /\ sha1_st.h.block_idx = Len(sha1_st.msg) % 64
          /\ sha1_st.h.len = Len(sha1_st.msg)
          /\ SubSeq(sha1_st.h.block, 1, sha1_st.h.block_idx)
                = MsgTail(sha1_st.msg, sha1_st.h.block_idx)
    /\ sha1_st.pc = "done" =>
          /\ sha1_st.padded = PaddedBlocks(sha1_st.msg, Len(sha1_st.msg) % 64)
          /\ \A b \in 1..Len(sha1_st.padded) : Len(sha1_st.padded[b]) = 64
          /\ \A k \in ((Len(sha1_st.msg) % 64) + 2)..56 :
                Len(sha1_st.msg) % 64 <= 55 => sha1_st.padded[1][k] = 0
          /\ \A k \in ((Len(sha1_st.msg) % 64) + 2)..64 :
                Len(sha1_st.msg) % 64 > 55 => sha1_st.padded[1][k] = 0

\* digest has returned for a message that ends one byte into a block whose
\* later bytes earlier updates had filled: one block was compressed
C20_Witness ==
    /\ sha1_st.pc = "done"
    /\ sha1_st.stale
    /\ Len(sha1_st.msg) % 64 <= 55
    /\ Len(sha1_st.padded) = 1
    /\ sha1_st.padded[1][(Len(sha1_st.msg) % 64) + 1] = \h80
    /\ sha1_st.padded[1][(Len(sha1_st.msg) % 64) + 2] = 0

\* digest has returned for a message that ends 56 bytes into a block whose
\* later bytes earlier updates had filled: two blocks were compressed
C20_WitnessTwoBlocks ==
    /\ sha1_st.pc = "done"
    /\ sha1_st.stale
    /\ Len(sha1_st.msg) % 64 > 55
    /\ Len(sha1_st.padded) = 2
    /\ sha1_st.padded[2] = Zeros(56) \o BitLenBe(Len(sha1_st.msg))

\* a reference update, one byte: the byte is copied into the block, and the
\* block is compressed when it is full
RefUpdateByte(st, byte) ==
    IF st.block_idx = 63
    THEN [k |-> st.k + 1,
          state |-> sha1_compress(st.state, [st.block EXCEPT ![64] = byte]),
          len |-> st.len + 1,
          block_idx |-> 0,
          block |-> [st.block EXCEPT ![64] = byte],
          blocks |-> Append(st.blocks, [st.block EXCEPT ![64] = byte])]
    ELSE [k |-> st.k + 1,
          state |-> st.state,
          len |-> st.len + 1,
          block_idx |-> st.block_idx + 1,
          block |-> [st.block EXCEPT ![st.block_idx + 1] = byte],
          blocks |-> st.blocks]

\* the bytes input[lo+1..hi] taken one after the other; the range is halved so
\* that the evaluation stays shallow, and the test on the first half (k counts
\* the bytes taken) makes TLC finish it before the second half starts
RECURSIVE RefUpdateLoop(_, _, _, _)
RefUpdateLoop(input, st, lo, hi) ==
    IF hi <= lo THEN st
    ELSE IF hi = lo + 1 THEN RefUpdateByte(st, input[hi])
    ELSE LET mid == (lo + hi) \div 2
             first == RefUpdateLoop(input, st, lo, mid)
         IN  IF first.k = mid /\ first.block_idx < 64
             THEN RefUpdateLoop(input, first, mid, hi) ELSE first

\* a reference update that copies every byte of input into the 64-byte
\* block and compresses each time it fills; blocks lists what it compressed
RefUpdate(self, input) ==
    RefUpdateLoop(input, [k |-> 0, state |-> self.state, len |-> self.len,
                          block_idx |-> self.block_idx, block |-> self.block,
                          blocks |-> <<>>], 0, Len(input))

\* state after the blocks have been compressed in order
RECURSIVE CompressAll(_, _)
CompressAll(state, blocks) ==
    IF blocks = <<>> THEN state
    ELSE CompressAll(sha1_compress(state, Head(blocks)), Tail(blocks))

\* C21: the direct compression of SHA-1 is unobservable.  In every step
\* that is a call of update, the blocks update compresses are, in order,
\* those a reference update compresses that copies every byte into the
\* 64-byte block and compresses each time it fills, started from the same
\* state with the same input; and update ends with the same registers (the
\* result of compressing those blocks), the same len, the same block_idx and
\* the same first block_idx bytes of the block as the reference.
C21_Sha1DirectCompress ==
    [][(sha1_st.pc = "updating" /\ sha1_st'.pc = "updating") =>
         \A ref \in {RefUpdate(sha1_st.h,
                          SubSeq(sha1_st.msg, sha1_st.pos + 1, sha1_st'.pos))} :
            /\ sha1_update_compressed(sha1_st.h,
                   SubSeq(sha1_st.msg, sha1_st.pos + 1, sha1_st'.pos)) = ref.blocks
            /\ sha1_st'.h.state = CompressAll(sha1_st.h.state, ref.blocks)
            /\ sha1_st'.h.state = ref.state
            /\ sha1_st'.h.len = ref.len
            /\ sha1_st'.h.block_idx = ref.block_idx
            /\ SubSeq(sha1_st'.h.block, 1, sha1_st'.h.block_idx)
                 = SubSeq(ref.block, 1, ref.block_idx)
      ]_vars

\* two calls of update with 64 bytes each on an empty block, both of which
\* were compressed from the input, were followed by a call whose bytes were
\* put into the block, whose bytes 2..64 were never written
C21_Witness ==
    /\ sha1_st.pc = "updating"
    /\ sha1_st.calls = "mixed"
    /\ sha1_st.pos = 129
    /\ sha1_st.h.block_idx = 1
    /\ sha1_st.h.block[1] = sha1_st.msg[129]
    /\ \A k \in 2..64 : sha1_st.h.block[k] = 0
    /\ sha1_st.h.state = CompressAll(sha1_new.state, sha1_chunks_exact(SubSeq(sha1_st.msg, 1, 128)))

\* the 80-word schedule grown from its first words: W[t] is
\* rotl(W[t-3] ^ W[t-8] ^ W[t-14] ^ W[t-16], 1), W[t] being w[t + 1] here
RECURSIVE Expand80(_)
Expand80(w) ==
    IF Len(w) >= 80 THEN w
    ELSE Expand80(Append(w,
            rotate_left(u32_xor(u32_xor(w[Len(w) - 2], w[Len(w) - 7]),
                                u32_xor(w[Len(w) - 13], w[Len(w) - 15])), 1)))

\* the big-endian 32-bit words of a block
BlockWordsBe(block) ==
    [t \in 1..16 |-> U32((block[(4 * t) - 3] * 256) + block[(4 * t) - 2],
                         (block[(4 * t) - 1] * 256) + block[4 * t])]

\* the 80-word schedule of a block
W80(block) == Expand80(BlockWordsBe(block))

\* the function of step t applied to b, c, d
StepFunction(t, b, c, d) ==
    IF t <= 19 THEN u32_or(u32_and(b, c), u32_and(u32_not(b), d))
    ELSE IF t <= 39 THEN u32_xor(b, u32_xor(c, d))
    ELSE IF t <= 59 THEN u32_or(u32_and(b, c), u32_or(u32_and(b, d), u32_and(c, d)))
    ELSE u32_xor(b, u32_xor(c, d))

\* C22: SHA-1 message schedule.  In compress, for every step t in 0..79 the
\* word added at step t is W[t] of the 80-word schedule, whose first 16
\* words are the big-endian words of the block and whose later words are
\* rotl(W[t-3] ^ W[t-8] ^ W[t-14] ^ W[t-16], 1); the 16-word buffer holds
\* the last 16 words of the schedule; steps 0-19, 20-39, 40-59 and 60-79
\* use (b&c)|(!b&d), b^c^d, (b&c)|(b&d)|(c&d) and b^c^d; and the state
\* compress leaves is the one these 80 steps give.
C22_Sha1MessageSchedule ==
    /\ (sha1_st.pc = "compress" /\ sha1_st.t = 0) =>
          sha1_st.w = SubSeq(W80(sha1_st.block), 1, 16)
    /\ (sha1_st.pc = "compress" /\ sha1_st.t >= 1) =>
          /\ sha1_st.t <= 80
          /\ sha1_st.added = W80(sha1_st.block)[sha1_st.t]
          /\ sha1_st.fv = StepFunction(sha1_st.t - 1, sha1_st.bcd[1], sha1_st.bcd[2], sha1_st.bcd[3])
          /\ sha1_st.t >= 16 =>
                \A k \in (sha1_st.t - 15)..sha1_st.t :
                    sha1_st.w[((k - 1) % 16) + 1] = W80(sha1_st.block)[k]
    /\ sha1_st.pc = "compressed" =>
          sha1_st.out = sha1_compress(sha1_st.state, sha1_st.block)

\* step 79 of compress has been done on the padded block of "abc": the
\* word it added is W[79], none of the 16 words decoded from the block
C22_Witness ==
    /\ sha1_st.pc = "compress"
    /\ sha1_st.t = 80
    /\ sha1_st.block[1] = \h61
    /\ sha1_st.block[64] = 24
    /\ sha1_st.added = W80(sha1_st.block)[80]
    /\ \A k \in 1..16 : sha1_st.added # BlockWordsBe(sha1_st.block)[k]
(***************************************************************************)
(* Claims about AES                                                        *)
(***************************************************************************)

\* C5: AES-128 known answer.  encrypt_128 of plaintext 3243f6a8...e0370734
\* under key 2b7e1516...09cf4f3c returns 3925841d02dc09fbdc118597196a0b32:
\* when the call has returned for this plaintext and key, out is that
\* ciphertext, and it is what encrypt_128 computes in one go.
C5_AesKnownAnswer ==
    (/\ aes_st.pc = "done"
     /\ aes_st.plaintext = AesTestPlaintext
     /\ aes_st.key = AesTestKey)
        => /\ aes_st.out = AesTestCiphertext
           /\ encrypt_128(aes_st.plaintext, aes_st.key) = AesTestCiphertext

\* C10: AES-128 key expansion.  key_expansion(2b7e1516...09cf4f3c) returns
\* the 44 round-key words of the FIPS-197 example, each byte-swapped, and it
\* has done so before any step of the encryption path has run, whatever
\* the plaintext.
C10_AesKeyExpansion ==
    (aes_st.pc # "key_expansion" /\ aes_st.key = AesTestKey)
        => /\ Len(aes_st.round_keys) = NB * (NR + 1)
           /\ \A k \in 1..(NB * (NR + 1)) :
                 aes_st.round_keys[k] = swap_bytes(EXPECTED_ROUND_KEYS_BE[k])
           /\ aes_st.round_keys = AesExpectedRoundKeys

\* key_expansion has returned for the FIPS-197 key and no step of the
\* encryption path has run yet; the last word is b6630ca6 byte-swapped
C10_Witness ==
    /\ aes_st.pc = "add_round_key"
    /\ aes_st.round = 0
    /\ aes_st.key = AesTestKey
    /\ aes_st.plaintext # AesTestPlaintext
    /\ aes_st.state = aes_st.plaintext
    /\ aes_st.round_keys[NB * (NR + 1)] = U32(\hA60C, \h63B6)
    /\ aes_st.round_keys[5] = U32(\h17FE, \hFAA0)


\* the calls of one round of the loop for round in 1..NR
AesLoopOps(round) ==
    <<<<"sub_bytes">>, <<"mix_columns">>, <<"add_round_key", 4 * round, (4 * round) + 3>>>>

GfDouble(x) == IF x < 128 THEN 2 * x ELSE xor8((2 * x) - 256, \h1B)

\* 3 * x in GF(2^8)
GfTriple(x) == xor8(GfDouble(x), x)

\* a ^ b ^ c ^ d on bytes
Xor4(a, b, c, d) == xor8(xor8(a, b), xor8(c, d))

\* the column (s0, s1, s2, s3) multiplied by the MixColumns matrix
MixedColumn(s0, s1, s2, s3) ==
    <<Xor4(GfDouble(s0), GfTriple(s1), s2, s3),
      Xor4(s0, GfDouble(s1), GfTriple(s2), s3),
      Xor4(s0, s1, GfDouble(s2), GfTriple(s3)),
      Xor4(GfTriple(s0), s1, s2, GfDouble(s3))>>

\* C25: AES MixColumns.  For every 16-byte column-major state mix_columns
\* replaces each column (s0, s1, s2, s3) by (2*s0 ^ 3*s1 ^ s2 ^ s3,
\* s0 ^ 2*s1 ^ 3*s2 ^ s3, s0 ^ s1 ^ 2*s2 ^ 3*s3, 3*s0 ^ s1 ^ s2 ^ 2*s3), the
\* products taken in GF(2^8) modulo x^8 + x^4 + x^3 + x + 1; and
\* d4bf5d30e0b452aeb84111f11e2798e5 maps to 046681e5e0cb199a48f8d37a2806264c.
C25_AesMixColumns ==
    aes_st.pc = "mixed" =>
        /\ Len(aes_st.out) = 16
        /\ \A c \in 0..3 :
              SubSeq(aes_st.out, (4 * c) + 1, (4 * c) + 4)
                  = MixedColumn(aes_st.state[(4 * c) + 1], aes_st.state[(4 * c) + 2],
                                aes_st.state[(4 * c) + 3], aes_st.state[(4 * c) + 4])
        /\ aes_st.state = AesMixTestState => aes_st.out = AesMixTestExpected

\* mix_columns has mapped d4bf5d30... to 046681e5...
C25_Witness ==
    /\ aes_st.pc = "mixed"
    /\ aes_st.state = AesMixTestState
    /\ aes_st.out = AesMixTestExpected
    /\ aes_st.state[1] >= 128

\* C26: AES ShiftRows.  For every 16-byte state stored column-major (the
\* byte at row r, column c is state[r + 4c]) shift_rows moves the byte at
\* (r, c) to (r, (c - r) mod 4): row i is shifted left cyclically by i
\* places and row 0 is untouched.  It is a permutation of the 16 bytes, and
\* four applications give the original state back.
C26_AesShiftRows ==
    aes_st.pc = "shifted" =>
        /\ Len(aes_st.out) = 16
        /\ \A r \in 0..3 : \A c \in 0..3 :
              aes_st.out[(r + (4 * (((c + (4 * aes_st.times)) - (aes_st.times * r)) % 4))) + 1]
                  = aes_st.state[(r + (4 * c)) + 1]
        /\ \A c \in 0..3 : aes_st.out[(4 * c) + 1] = aes_st.state[(4 * c) + 1]
        /\ Cardinality({r + (4 * (((c + 4) - r) % 4)) : r \in 0..3, c \in 0..3}) = 16
        /\ aes_st.times = 4 => aes_st.out = aes_st.state
        /\ (aes_st.times = 1 /\ aes_st.state = AesShiftTestState)
              => aes_st.out = AesShiftTestExpected

\* shift_rows has been applied four times to a state whose rows are not
\* constant, and the state is back
C26_Witness ==
    /\ aes_st.pc = "shifted"
    /\ aes_st.times = 4
    /\ aes_st.out = aes_st.state
    /\ aes_st.state # aes_shift_rows(aes_st.state)
    /\ aes_st.state[2] # aes_st.state[6]
(***************************************************************************)
(* Claims about Twofish                                                    *)
(***************************************************************************)

\* C6: Twofish known answers.  encrypt of the all-zero block returns
\* 9F589F5C...2AE8C35A under the all-zero 128-bit key, CFD1D2E5...92BD2248
\* under the 192-bit test key and 37527BE0...E87CFA20 under the 256-bit test
\* key: when the call has returned for the zero block and one of these keys,
\* out is the ciphertext listed, and it is what encrypt computes in one go.
C6_TwofishKnownAnswers ==
    \A k \in 1..Len(TF_TESTS) :
        (/\ tf_st.pc = "done"
         /\ tf_st.plaintext = Zeros(16)
         /\ tf_st.key = TF_TESTS[k].key)
            => /\ tf_st.out = TF_TESTS[k].ciphertext
               /\ tf_encrypt(tf_st.plaintext, tf_st.key) = TF_TESTS[k].ciphertext

\* the zero block has been encrypted under the 256-bit test key, through
\* all 16 rounds, to 37527BE0...
C6_Witness ==
    /\ tf_st.pc = "done"
    /\ tf_st.plaintext = Zeros(16)
    /\ tf_st.key = TF_TESTS[3].key
    /\ tf_st.schedule.len_u64 = 4
    /\ tf_st.r = NUM_ROUNDS
    /\ tf_st.out = TF_TESTS[3].ciphertext
    /\ tf_st.out[1] = \h37


\* C11: Twofish key expansion.  For the three test keys (all-zero 128-bit,
\* the 192-bit and the 256-bit test key) expand_key returns len_u64 = 2, 3, 4,
\* the S-box keys [0,0,0,0], [45661061,B255BC4B,B89FF6F2,0] and
\* [8E4447F7,45661061,B255BC4B,B89FF6F2] (reverse key-chunk order, unused
\* slots zero) and the 40 subkeys tabulated in the tests: once encrypt has
\* expanded such a key, its schedule holds exactly these values.
C11_TwofishKeyExpansion ==
    \A k \in 1..Len(TF_EXPAND_TESTS) :
        (tf_st.pc # "expand_key" /\ tf_st.key = TF_EXPAND_TESTS[k].key)
            => /\ tf_st.schedule.len_u64 = TF_EXPAND_TESTS[k].len_u64
               /\ tf_st.schedule.len_u64 = k + 1
               /\ tf_st.schedule.sbox_keys = TF_EXPAND_TESTS[k].sbox_keys
               /\ tf_st.schedule.subkeys = TF_EXPAND_TESTS[k].subkeys
               /\ Len(tf_st.schedule.subkeys) = 40
               /\ expand_key(tf_st.key) = tf_st.schedule

\* the 192-bit test key has just been expanded: three S-box keys, the
\* fourth slot zero, the first subkey 38394A24
C11_Witness ==
    /\ tf_st.pc = "whiten_in"
    /\ tf_st.key = TF_EXPAND_TESTS[2].key
    /\ Len(tf_st.key) = 24
    /\ tf_st.schedule.len_u64 = 3
    /\ tf_st.schedule.sbox_keys = <<U32(\h4566, \h1061), U32(\hB255, \hBC4B), U32(\hB89F, \hF6F2), U32Zero>>
    /\ tf_st.schedule.subkeys[1] = U32(\h3839, \h4A24)
    /\ tf_st.schedule.subkeys[40] = U32(\h6A1A, \hD61E)

\* the four words x, each XORed with the subkey at first + i (0-based) and
\* written as 4 little-endian bytes
TfWhitened(x, subkeys, first) ==
    to_le_bytes(u32_xor(x[1], subkeys[first + 1])) \o to_le_bytes(u32_xor(x[2], subkeys[first + 2]))
        \o to_le_bytes(u32_xor(x[3], subkeys[first + 3]))
        \o to_le_bytes(u32_xor(x[4], subkeys[first + 4]))

\* C17 as stated: after the 16 rounds (no swap after the last one) encrypt
\* XORs the four state words with the last 4 subkeys of the 40-word key
\* schedule, subkeys[36..39], and serialises them little-endian.
C17_FinalWhiteningLastFour ==
    [][/\ (tf_st.pc = "round" /\ tf_st.r + 1 = NUM_ROUNDS)
             => (tf_st'.x[1] = tf_st.x[1] /\ tf_st'.x[2] = tf_st.x[2])
       /\ tf_st.pc = "whiten_out"
             => /\ Len(tf_st.schedule.subkeys) = 40
                /\ tf_st'.out = TfWhitened(tf_st.x, tf_st.schedule.subkeys, 36)
      ]_vars

\* C17, amended: after the 16 rounds, the first 15 of which end with the
\* swap of the halves and the last of which does not, encrypt XORs the four
\* state words with subkeys[4..7], the second four of the 8 whitening
\* subkeys at the front of the 40-word schedule, and serialises them
\* little-endian as the ciphertext.
C17_FinalWhitening ==
    [][/\ (tf_st.pc = "round" /\ tf_st.r + 1 = NUM_ROUNDS)
             => /\ tf_st'.x[1] = tf_st.x[1]
                /\ tf_st'.x[2] = tf_st.x[2]
                /\ tf_st'.pc = "whiten_out"
                /\ tf_st'.r = 16
       /\ (tf_st.pc = "round" /\ tf_st.r + 1 < NUM_ROUNDS)
             => /\ tf_st'.x[3] = tf_st.x[1]
                /\ tf_st'.x[4] = tf_st.x[2]
                /\ tf_st'.pc = "round"
       /\ tf_st.pc = "whiten_out"
             => /\ Len(tf_st.schedule.subkeys) = 40
                /\ tf_st'.out = TfWhitened(tf_st.x, tf_st.schedule.subkeys, 4)
                /\ Len(tf_st'.out) = 16
                /\ tf_st'.pc = "done"
      ]_vars

\* encrypt has returned for the 192-bit test key after 16 rounds; the
\* ciphertext is the state whitened with subkeys[4..7], which differ from
\* subkeys[36..39]
C17_Witness ==
    /\ tf_st.pc = "done"
    /\ tf_st.r = NUM_ROUNDS
    /\ tf_st.key = TF_TESTS[2].key
    /\ tf_st.out = TfWhitened(tf_st.x, tf_st.schedule.subkeys, 4)
    /\ tf_st.out # TfWhitened(tf_st.x, tf_st.schedule.subkeys, 36)
    /\ tf_st.out = TF_TESTS[2].ciphertext

(***************************************************************************)
(* Claims about both hashes                                                *)
(***************************************************************************)

\* C12: hash buffer invariant.  After construction and after every update
\* call the number of buffered unprocessed bytes (Sha1.block_idx, and
\* (count[0] >> 3) & 0x3f for MD5) is between 0 and 63, and it is the number
\* of bytes handed over so far modulo 64; it is 64 only inside the padding
\* step of digest, and it is never more than 64.
C12_HashBufferInvariant ==
    /\ sha1_st.pc = "updating"
          => /\ sha1_st.h.block_idx \in 0..63
             /\ sha1_st.h.block_idx = sha1_st.pos % 64
    /\ sha1_st.pc \in {"pad", "done"} => sha1_st.h.block_idx \in {56, 64}
    /\ (sha1_st.pc # "idle" /\ sha1_st.h.block_idx = 64) => sha1_st.pc = "pad"
    /\ md5_st.pc = "updating"
          => /\ md5_idx(md5_st.h) \in 0..63
             /\ md5_idx(md5_st.h) = md5_st.pos % 64
    /\ md5_st.pc # "idle" => md5_idx(md5_st.h) < 64

\* digest of a SHA-1 state is inside pad with the block closed at 64 bytes,
\* after more than one block was handed over in several update calls
C12_Witness ==
    /\ sha1_st.pc = "pad"
    /\ sha1_st.h.block_idx = 64
    /\ sha1_st.pos > 64
    /\ sha1_st.pos % 64 > 55
    /\ sha1_st.calls = "mixed"

C27_EmptyUpdateNoOp ==
    [][/\ md5_st.pc = "updating" =>
             /\ md5_update(md5_st.h, <<>>).state = md5_st.h.state
             /\ md5_update(md5_st.h, <<>>).count = md5_st.h.count
             /\ md5_idx(md5_update(md5_st.h, <<>>)) = md5_idx(md5_st.h)
             /\ SubSeq(md5_update(md5_st.h, <<>>).buffer, 1, md5_idx(md5_st.h))
                   = SubSeq(md5_st.h.buffer, 1, md5_idx(md5_st.h))
             /\ md5_update_transforms(md5_st.h, <<>>) = 0
             /\ (md5_st'.pc = "updating" /\ md5_st'.pos = md5_st.pos) =>
                   /\ md5_st'.h = md5_st.h
                   /\ md5_st'.transforms = md5_st.transforms
       /\ (md5_st.pc = "pad" /\ md5_st'.pc = "done") => md5_st'.out = md5(md5_st.msg)
       /\ sha1_st.pc = "updating" =>
             /\ sha1_update(sha1_st.h, <<>>).state = sha1_st.h.state
             /\ sha1_update(sha1_st.h, <<>>).len = sha1_st.h.len
             /\ sha1_update(sha1_st.h, <<>>).block_idx = sha1_st.h.block_idx
             /\ SubSeq(sha1_update(sha1_st.h, <<>>).block, 1, sha1_st.h.block_idx)
                   = SubSeq(sha1_st.h.block, 1, sha1_st.h.block_idx)
             /\ sha1_update_compressed(sha1_st.h, <<>>) = <<>>
             /\ (sha1_st'.pc = "updating" /\ sha1_st'.pos = sha1_st.pos) =>
                   sha1_st'.h = sha1_st.h
       /\ (sha1_st.pc = "pad" /\ sha1_st'.pc = "done") => sha1_st'.out = sha1(sha1_st.msg)
      ]_vars

\* digest has returned for a one-block MD5 message after an update with all
\* of it and then an empty update on the bytes it left buffered
C27_Witness ==
    /\ md5_st.pc = "done"
    /\ md5_st.calls = 2
    /\ md5_st.cut = Len(md5_st.msg)
    /\ Len(md5_st.msg) % 64 # 0
    /\ md5_st.out = md5(md5_st.msg)

\* digest has returned for a SHA-1 message handed over in updates that were
\* all empty but one
C27_WitnessSha1 ==
    /\ sha1_st.pc = "done"
    /\ sha1_st.calls = "mixed"
    /\ Len(sha1_st.msg) = 3
    /\ sha1_st.out = sha1(sha1_st.msg)

(***************************************************************************)
(* Claims about the ciphers side by side                                   *)
(***************************************************************************)

\* what the call returns when it runs alone, from its arguments
CallAlone(c) ==
    CASE c.kind = "des" -> des_encrypt(c.plaintext, c.key)
      [] c.kind = "aes" -> encrypt_128(c.plaintext, c.key)
      [] c.kind = "twofish" -> tf_encrypt(c.plaintext, c.key)

\* the round keys or key schedule of every key a call may get, derived once
CallSchedules ==
    [kind \in {"des", "aes", "twofish"} |->
        [key \in {i.key : i \in CallInputs(kind)} |->
            CASE kind = "des" -> des_round_keys(key)
              [] kind = "aes" -> aes_key_expansion(key)
              [] kind = "twofish" -> expand_key(key)] @@ <<>>] @@ <<>>

\* C14: cipher operations are stateless.  When the steps of two block
\* encryptions (DES, AES-128, Twofish; the same or different ciphers, the
\* same or different keys) are interleaved in any order, each returns what
\* it returns when run alone; two encryptions of the same block/key pair
\* return the same bytes; and the round keys or key schedule of a call,
\* once derived, are those of its own key at every later step, whatever the
\* other call does.
C14_CiphersStateless ==
    /\ \A i \in 1..Len(calls) :
          /\ calls[i].pc = "done" => calls[i].out = CallAlone(calls[i])
          /\ calls[i].schedule # <<>> => calls[i].schedule = CallSchedules[calls[i].kind][calls[i].key]
    /\ \A i \in 1..Len(calls), j \in 1..Len(calls) :
          (/\ calls[i].pc = "done"
           /\ calls[j].pc = "done"
           /\ calls[i].kind = calls[j].kind
           /\ calls[i].plaintext = calls[j].plaintext
           /\ calls[i].key = calls[j].key)
              => calls[i].out = calls[j].out

\* two AES encryptions of the same block under different keys are both in
\* the middle of their rounds, and a Twofish-free interleaving brought them
\* there: the first has used 6 round keys, the second 3
C14_Witness ==
    /\ Len(calls) = 2
    /\ calls[1].kind = "aes"
    /\ calls[2].kind = "aes"
    /\ calls[1].key # calls[2].key
    /\ calls[1].plaintext = calls[2].plaintext
    /\ calls[1].pc = "mix_columns"
    /\ calls[1].round = 6
    /\ calls[2].pc = "sub_bytes"
    /\ calls[2].round = 3
    /\ calls[1].schedule # calls[2].schedule
====
